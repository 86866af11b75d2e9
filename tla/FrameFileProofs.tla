-------------------------- MODULE FrameFileProofs --------------------------
(***************************************************************************)
(* Theorems about LZ4FrameCompressor and LZ4FrameFile, for every window,   *)
(* set of block sizes and preferences, and content.  First the compressor: *)
(* its flags and context stay right whatever order its methods are called  *)
(* in and whatever fails, and it implements FrameWriter.  Then files: they *)
(* read as what was written, a cut one is not read to an end, and a writer *)
(* goes on after any failure.                                              *)
(***************************************************************************)
EXTENDS FrameFile, LZ4FCompressionProofs

\* The context the object holds, whatever has failed before: sound for the
\* content given when the object compresses into it, empty otherwise.
Held ==
  has =>
    /\ 0..(cctx.max - 1) \subseteq DOMAIN cctx.mem
    /\ cctx.cStage = 1 /\ started => Sound(cctx, accepted)
    /\ ~ (cctx.cStage = 1 /\ started) => cctx.tmpInSize = 0

\* The frame it writes, as long as nothing has failed.
Clean ==
  clean =>
    /\ started <=> has
    /\ started => /\ cctx.cStage = 1
                  /\ sent + cctx.tmpInSize = accepted
                  /\ cctx.prefs.size > 0 => cctx.total = accepted

\* The inductive invariant.  FlagsAgree and ContextSound say nothing of the
\* frame's counts, on which PromiseKept and the refinement rest.
IInv == TypeOK /\ Held /\ Clean /\ PromiseKept

\* The constants' types and the invariant's, in the form the steps use them.
LEMMA Types ==
  ASSUME IInv
  PROVE  /\ ContentSizes \in SUBSET Nat /\ MaxContent \in Nat
         /\ IsContext(cctx, ContentSizes) /\ cctx.tmpInSize \in Nat
         /\ cctx.cStage \in {0, 1} /\ cctx.max \in Nat
         /\ accepted \in Nat /\ sent \in Nat
         /\ has \in BOOLEAN /\ started \in BOOLEAN /\ clean \in BOOLEAN
<1>1. ContentSizes \in SUBSET Nat /\ MaxContent \in Nat
  BY ClassAssumption
<1>2. IsContext(cctx, ContentSizes)
  BY DEF IInv, TypeOK
<1>3. cctx.tmpInSize \in Nat /\ cctx.cStage \in {0, 1} /\ cctx.max \in Nat
  BY <1>1, <1>2, ContextTypes
<1>4. accepted \in Nat /\ sent \in Nat
  BY DEF IInv, TypeOK
<1>5. has \in BOOLEAN /\ started \in BOOLEAN /\ clean \in BOOLEAN
  BY DEF IInv, TypeOK
<1> QED
  BY <1>1, <1>2, <1>3, <1>4, <1>5

\* A new context, of LZ4F_createCompressionContext.
LEMMA NewContextTypes ==
  /\ IsContext(NewContext, ContentSizes)
  /\ NewContext.cStage = 0 /\ NewContext.tmpInSize = 0
  /\ NewContext.max = 0 /\ DOMAIN NewContext.mem = {}
<1>1. NewContext.prefs \in Preferences(ContentSizes)
  BY BlockAssumption, ClassAssumption DEF NewContext, Preferences
<1>2. /\ NewContext.cStage = 0 /\ NewContext.tmpInSize = 0
      /\ NewContext.max = 0 /\ NewContext.mem = [a \in {} |-> Garbage]
  BY DEF NewContext
<1>3. NewContext \in [cStage: {0, 1}, max: Nat, mem: {NewContext.mem}, tmpIn: Nat,
                      tmpInSize: Nat, total: Nat,
                      dict: [in: {"tmp", "src"}, at: Nat, size: Nat],
                      prefs: Preferences(ContentSizes)]
  BY <1>1 DEF NewContext, NoDict, Span
<1> QED
  BY <1>2, <1>3 DEF IsContext

LEMMA InitIInv == Init => IInv
<1> SUFFICES ASSUME Init PROVE IInv
  OBVIOUS
<1>1. cctx = NewContext /\ ret.status = "ok" /\ ret.parts = {}
  BY DEF Init, Raised
<1>2. TypeOK
  <2>1. IsContext(cctx, ContentSizes) /\ ret.status \in Statuses
    BY <1>1, NewContextTypes DEF Statuses
  <2>2. {has, started, clean} \subseteq BOOLEAN
    BY DEF Init
  <2>3. {accepted, sent} \subseteq Nat
    BY DEF Init
  <2> QED
    BY <2>1, <2>2, <2>3 DEF TypeOK
<1>3. Held /\ Clean
  BY DEF Init, Held, Clean
<1>4. PromiseKept
  BY <1>1 DEF PromiseKept
<1> QED
  BY <1>2, <1>3, <1>4 DEF IInv
-----------------------------------------------------------------------------
(* The step.                                                               *)

\* A call that raises for lack of memory or room, or is refused by Python, is
\* no longer clean or changes nothing; its context has to stay as Held says.
LEMMA RaisedStep ==
  ASSUME IInv, clean' = FALSE, ret'.status \in Statuses,
         IsContext(cctx', ContentSizes), Held',
         has' \in BOOLEAN, started' \in BOOLEAN, accepted' \in Nat, sent' \in Nat
  PROVE  IInv'
BY DEF IInv, TypeOK, Clean, PromiseKept

LEMMA RefuseStep ==
  ASSUME IInv, Refuse
  PROVE  IInv'
<1>1. ret'.status = "refused" /\ ret'.parts = {}
  BY DEF Refuse, Raised
<1> QED
  BY <1>1 DEF Refuse, IInv, TypeOK, Held, Clean, PromiseKept, Statuses

LEMMA CreateStep ==
  ASSUME IInv, CreateRaises
  PROVE  IInv'
<1>1. ret' \in {Raised("MemoryError"), Raised("allocation")}
  BY DEF CreateRaises
<1>2. ret'.status \in Statuses /\ ret'.parts = {}
  BY <1>1 DEF Raised, Statuses
<1> QED
  BY <1>2 DEF CreateRaises, IInv, TypeOK, Held, Clean, PromiseKept

\* begin: a new context, begun or not.
LEMMA BeginStep ==
  ASSUME IInv, NEW p \in Choices, begin(p)
  PROVE  IInv'
<1> DEFINE b == Begin(NewContext, p)
<1>1. p \in Preferences(ContentSizes) /\ ContentSizes \in SUBSET Nat
  BY ClassAssumption
<1>2. /\ IsContext(NewContext, ContentSizes) /\ NewContext.cStage = 0
      /\ NewContext.tmpInSize = 0 /\ 0..(NewContext.max - 1) \subseteq DOMAIN NewContext.mem
  BY NewContextTypes
<1>3. /\ IsContext(b, ContentSizes) /\ b.cStage = 1 /\ b.tmpInSize = 0 /\ Sound(b, 0)
  BY <1>1, <1>2, BeginSound
<1>4. 0..(b.max - 1) \subseteq DOMAIN b.mem
  BY <1>3 DEF Sound, Roomy
<1>5. accepted \in Nat /\ sent \in Nat
  BY Types
<1>6. CASE started /\ Refuse
  BY <1>6, RefuseStep
<1>7. CASE ~ started /\ has' = TRUE /\ BeginDone(p)
  <2>1. /\ cctx' = b /\ started' = TRUE /\ accepted' = 0 /\ sent' = 0 /\ clean' = TRUE
        /\ ret' = HeaderReturned(p) /\ has' = TRUE
    BY <1>7 DEF BeginDone
  <2>2. cctx'.prefs = p /\ (p.size > 0 => cctx'.total = 0)
    BY <1>2, <2>1 DEF Begin, IsContext
  <2>3. ret'.status = "ok" /\ ret'.parts = {"header"}
    BY <2>1 DEF HeaderReturned, Returned
  <2> HIDE DEF b
  <2>4. TypeOK'
    BY <1>3, <2>1, <2>3 DEF TypeOK, Statuses
  <2>5. Held'
    BY <1>3, <1>4, <2>1 DEF Held
  <2>6. Clean'
    BY <1>3, <2>1, <2>2 DEF Clean
  <2>7. PromiseKept'
    BY <2>3 DEF PromiseKept
  <2> QED
    BY <2>4, <2>5, <2>6, <2>7 DEF IInv
<1>8. CASE ~ started /\ has' = TRUE /\ BeginRaises(p)
  <2>1. PICK f \in BeginFailures(NewContext, p) : cctx' = f.c /\ ret' = f.ret
    BY <1>8 DEF BeginRaises
  <2>2. /\ clean' = FALSE /\ started' = started /\ ~ started
        /\ accepted' = accepted /\ sent' = sent
    BY <1>8 DEF BeginRaises
  <2>3. \/ f = [c |-> NewContext, ret |-> Raised("MemoryError")]
        \/ f = [c |-> [NewContext EXCEPT !.prefs = p], ret |-> Raised("allocation")]
        \/ f = [c |-> b, ret |-> Raised("MemoryError")]
        \/ f = [c |-> BeginFailed(NewContext, p), ret |-> Raised("allocation")]
    BY <2>1 DEF BeginFailures
  <2>4. ret' \in {Raised("MemoryError"), Raised("allocation")}
    BY <2>1, <2>3
  <2>5. ret'.status \in Statuses
    BY <2>4 DEF Raised, Statuses
  <2>6. \/ cctx' = NewContext
        \/ cctx' = [NewContext EXCEPT !.prefs = p]
        \/ cctx' = b
        \/ cctx' = BeginFailed(NewContext, p)
    BY <2>1, <2>3
  <2>7. /\ IsContext(cctx', ContentSizes) /\ cctx'.tmpInSize = 0
        /\ 0..(cctx'.max - 1) \subseteq DOMAIN cctx'.mem
    <3>1. CASE cctx' = NewContext
      BY <1>2, <3>1
    <3>2. CASE cctx' = [NewContext EXCEPT !.prefs = p]
      <4>1. /\ cctx'.mem = NewContext.mem /\ cctx'.max = NewContext.max
            /\ cctx'.tmpInSize = NewContext.tmpInSize
        BY <1>2, <3>2 DEF IsContext
      <4> QED
        BY <1>1, <1>2, <3>2, <4>1 DEF IsContext
    <3>3. CASE cctx' = b
      BY <1>3, <1>4, <3>3
    <3>4. CASE cctx' = BeginFailed(NewContext, p)
      <4>1. cctx' = [NewContext EXCEPT !.prefs = p, !.max = 0, !.mem = [a \in {} |-> Garbage]]
        BY <3>4 DEF BeginFailed
      <4>2. /\ cctx'.max = 0 /\ cctx'.mem = [a \in {} |-> Garbage]
            /\ cctx'.tmpInSize = NewContext.tmpInSize
        BY <1>2, <4>1 DEF IsContext
      <4>3. cctx' \in [cStage: {0, 1}, max: Nat, mem: {cctx'.mem}, tmpIn: Nat,
                       tmpInSize: Nat, total: Nat,
                       dict: [in: {"tmp", "src"}, at: Nat, size: Nat],
                       prefs: Preferences(ContentSizes)]
        BY <1>1, <1>2, <4>1, <4>2 DEF IsContext
      <4>4. DOMAIN cctx'.mem \subseteq Nat /\ cctx'.mem \in [DOMAIN cctx'.mem -> Int]
        BY <4>2
      <4> QED
        BY <1>2, <4>2, <4>3, <4>4 DEF IsContext
    <3> QED
      BY <2>6, <3>1, <3>2, <3>3, <3>4
  <2>8. Held'
    BY <2>2, <2>7 DEF Held
  <2>9. accepted' \in Nat /\ sent' \in Nat
    BY <1>5, <2>2
  <2>10. has' \in BOOLEAN /\ started' \in BOOLEAN
    BY <1>8, <2>2, Types, Zenon
  <2> QED
    BY <2>2, <2>5, <2>7, <2>8, <2>9, <2>10, RaisedStep
<1>9. CASE ~ started /\ CreateRaises
  BY <1>9, CreateStep
<1> QED
  BY <1>6, <1>7, <1>8, <1>9 DEF begin

\* compress, into a context begun or not.
LEMMA CompressStep ==
  ASSUME IInv, NEW n \in 0..MaxContent, compress(n)
  PROVE  IInv'
<1> DEFINE u == Update(cctx, accepted, n)
<1>1. n \in Nat /\ ContentSizes \in SUBSET Nat /\ IsContext(cctx, ContentSizes)
  BY Types
<1>2. accepted \in Nat /\ sent \in Nat /\ cctx.tmpInSize \in Nat /\ accepted + n \in Nat
  BY <1>1, Types
<1>3. CASE ~ (has /\ started) /\ Refuse
  BY <1>3, RefuseStep
<1>4. CASE has /\ started /\ CompressDone(n) /\ UNCHANGED <<has, started>>
  <2>1. /\ has' = has /\ started' = started /\ has /\ started
        /\ cctx.cStage = 1 /\ cctx' = u /\ accepted' = accepted + n
    BY <1>4 DEF CompressDone, ChunkRefused
  <2>2. Sound(cctx, accepted)
    BY <2>1 DEF IInv, Held
  <2>3. /\ IsContext(u, ContentSizes) /\ Sound(u, accepted + n)
        /\ u.cStage = cctx.cStage /\ u.prefs = cctx.prefs /\ u.total = cctx.total + n
        /\ UpdateBytes(cctx, n) \in Nat
        /\ UpdateBytes(cctx, n) + u.tmpInSize = cctx.tmpInSize + n
    <3>1. accepted \in Nat /\ n \in Nat
      BY <1>1, <1>2
    <3> QED
      BY <1>1, <2>2, <3>1, UpdateSound
  <2>4. u.tmpInSize \in Nat
    BY <1>1, <2>3, ContextTypes
  <2> HIDE DEF u
  <2>5. Held'
    BY <2>1, <2>3 DEF Held, Sound, Roomy
  <2>6. CASE /\ sent' = sent + UpdateBytes(cctx, n)
             /\ ret' = ChunkReturned(cctx, accepted, n)
             /\ UNCHANGED clean
    <3>1. ret'.status = "ok" /\ ret'.parts = {"blocks"}
      BY <2>6 DEF ChunkReturned, Returned
    <3>2. sent' \in Nat
      BY <1>2, <2>3, <2>6
    <3>3. TypeOK'
      BY <1>2, <2>1, <2>3, <2>6, <3>1, <3>2 DEF IInv, TypeOK, Statuses
    <3>4. Clean'
      <4>1. SUFFICES ASSUME clean
                     PROVE  /\ cctx'.cStage = 1
                            /\ sent' + cctx'.tmpInSize = accepted'
                            /\ cctx'.prefs.size > 0 => cctx'.total = accepted'
        BY <2>1, <2>6 DEF Clean
      <4>2. /\ sent + cctx.tmpInSize = accepted
            /\ cctx.prefs.size > 0 => cctx.total = accepted
        BY <2>1, <4>1 DEF IInv, Clean
      <4>3. sent' + cctx'.tmpInSize = accepted'
        BY <1>1, <1>2, <2>1, <2>3, <2>4, <2>6, <4>2
      <4> QED
        BY <2>1, <2>3, <4>2, <4>3
    <3>5. PromiseKept'
      BY <3>1 DEF PromiseKept
    <3> QED
      BY <2>5, <3>3, <3>4, <3>5 DEF IInv
  <2>7. CASE ret' = Raised("MemoryError") /\ clean' = FALSE /\ UNCHANGED sent
    <3>1. ret'.status \in Statuses
      BY <2>7 DEF Raised, Statuses
    <3> QED
      BY <1>2, <2>1, <2>3, <2>5, <2>7, <3>1, RaisedStep
  <2> QED
    BY <1>4, <2>6, <2>7 DEF CompressDone
<1>5. CASE CompressRaises(n) /\ UNCHANGED <<has, started>>
  <2>1. ret'.status \in Statuses
    BY <1>5 DEF CompressRaises, ChunkRaised, Raised, Statuses
  <2>2. /\ cctx' = cctx /\ clean' = FALSE /\ accepted' = accepted /\ sent' = sent
        /\ has' = has /\ started' = started
    BY <1>5 DEF CompressRaises
  <2>3. Held'
    BY <2>2 DEF IInv, Held
  <2>4. has' \in BOOLEAN /\ started' \in BOOLEAN
    BY <2>2, Types
  <2> QED
    BY <1>1, <1>2, <2>1, <2>2, <2>3, <2>4, RaisedStep
<1> QED
  BY <1>3, <1>4, <1>5 DEF compress

\* flush, which keeps what it cannot send when it raises before the end.
LEMMA FlushStep ==
  ASSUME IInv, flush
  PROVE  IInv'
<1> DEFINE f == Flush(cctx)
<1>1. ContentSizes \in SUBSET Nat /\ IsContext(cctx, ContentSizes)
  BY Types
<1>2. accepted \in Nat /\ sent \in Nat /\ cctx.tmpInSize \in Nat /\ cctx.cStage \in {0, 1}
  BY Types
<1>3. CASE ~ has /\ Refuse
  BY <1>3, RefuseStep
<1>4. ASSUME has, ~ FlushNotStarted(cctx)
      PROVE  /\ IsContext(f, ContentSizes) /\ SameFrame(cctx, f) /\ f.tmpInSize = 0
             /\ 0..(f.max - 1) \subseteq DOMAIN f.mem
             /\ cctx.cStage = 1 /\ started => Sound(f, accepted)
  <2>1. CASE cctx.cStage = 1 /\ started
    <3>1. Sound(cctx, accepted)
      BY <1>4, <2>1 DEF IInv, Held
    <3>2. /\ IsContext(f, ContentSizes) /\ Sound(f, accepted)
          /\ SameFrame(cctx, f) /\ f.tmpInSize = 0
      BY <1>1, <1>2, <3>1, FlushSound
    <3> QED
      BY <3>2 DEF Sound, Roomy
  <2>2. CASE ~ (cctx.cStage = 1 /\ started)
    <3>1. cctx.tmpInSize = 0 /\ 0..(cctx.max - 1) \subseteq DOMAIN cctx.mem
      BY <1>4, <2>2 DEF IInv, Held
    <3>2. f = cctx
      BY <3>1 DEF Flush
    <3> HIDE DEF f
    <3> QED
      BY <1>1, <2>2, <3>1, <3>2 DEF SameFrame
  <2> QED
    BY <2>1, <2>2
<1>5. ASSUME has, ~ FlushNotStarted(cctx)
      PROVE  /\ IsContext(End(cctx), ContentSizes) /\ End(cctx).cStage = 0
             /\ End(cctx).tmpInSize = 0 /\ End(cctx).max = 0
             /\ End(cctx).prefs = cctx.prefs
  <2>1. IsContext(f, ContentSizes) /\ SameFrame(cctx, f) /\ f.tmpInSize = 0
    BY <1>4, <1>5
  <2> QED
    BY <1>1, <2>1, EndTypes DEF SameFrame
<1>6. CASE has /\ FlushReturns
  <2>1. /\ ~ FlushNotStarted(cctx) /\ ~ WrongSize(cctx) /\ cctx' = End(cctx)
        /\ has' = FALSE /\ started' = FALSE
        /\ sent' = sent + cctx.tmpInSize /\ accepted' = accepted
        /\ ret' = FlushReturned(cctx, TRUE) /\ clean' = clean
    BY <1>6 DEF FlushReturns, FlushRefused
  <2>2. IsContext(End(cctx), ContentSizes) /\ End(cctx).prefs = cctx.prefs
    BY <1>5, <1>6, <2>1
  <2>3. ret'.status = "ok"
    BY <2>1 DEF FlushReturned, Returned
  <2>4. TypeOK'
    <3>1. {accepted', sent'} \subseteq Nat
      BY <1>2, <2>1
    <3>2. {has', started', clean'} \subseteq BOOLEAN
      BY <2>1 DEF IInv, TypeOK
    <3> QED
      BY <2>1, <2>2, <2>3, <3>1, <3>2 DEF TypeOK, Statuses
  <2>5. Held' /\ Clean'
    BY <2>1 DEF Held, Clean
  <2>6. PromiseKept'
    <3>1. SUFFICES ASSUME clean, cctx.prefs.size > 0
                   PROVE  accepted = cctx.prefs.size
      BY <2>1, <2>2 DEF PromiseKept
    <3>2. cctx.total = accepted
      BY <1>6, <3>1 DEF IInv, Clean
    <3> QED
      BY <2>1, <3>1, <3>2 DEF WrongSize
  <2> QED
    BY <2>4, <2>5, <2>6 DEF IInv
<1>7. CASE has /\ FlushRaises
  <2>1. /\ clean' = FALSE /\ has' = has /\ started' = started
        /\ accepted' = accepted /\ sent' = sent
    BY <1>7 DEF FlushRaises
  <2>2. ret'.status \in Statuses
    <3>1. \E r \in Statuses : ret' = Raised(r)
      BY <1>7, Zenon DEF FlushRaises, FlushRaised, Statuses
    <3> QED
      BY <3>1 DEF Raised
  <2>3. \/ cctx' = cctx
        \/ cctx' = f /\ ~ FlushNotStarted(cctx)
        \/ cctx' = End(cctx) /\ ~ FlushNotStarted(cctx)
    BY <1>7 DEF FlushRaises, AfterRefusedFlush, FlushRefused
  <2>4. IsContext(cctx', ContentSizes) /\ Held'
    <3>1. CASE cctx' = cctx
      BY <1>1, <2>1, <3>1 DEF IInv, Held
    <3>2. CASE cctx' = f /\ ~ FlushNotStarted(cctx)
      <4>1. /\ IsContext(f, ContentSizes) /\ SameFrame(cctx, f) /\ f.tmpInSize = 0
            /\ 0..(f.max - 1) \subseteq DOMAIN f.mem
            /\ cctx.cStage = 1 /\ started => Sound(f, accepted)
        BY <1>4, <1>7, <3>2
      <4> HIDE DEF f
      <4> QED
        BY <2>1, <3>2, <4>1 DEF Held, SameFrame
    <3>3. CASE cctx' = End(cctx) /\ ~ FlushNotStarted(cctx)
      BY <1>5, <1>7, <3>3 DEF Held
    <3> QED
      BY <2>3, <3>1, <3>2, <3>3
  <2>5. has' \in BOOLEAN /\ started' \in BOOLEAN
    BY <2>1, Types
  <2> QED
    BY <1>2, <2>1, <2>2, <2>4, <2>5, RaisedStep
<1> QED
  BY <1>3, <1>6, <1>7 DEF flush

\* reset drops the context, whatever state it is in.
LEMMA ResetStep ==
  ASSUME IInv, reset
  PROVE  IInv'
<1>1. /\ has' = FALSE /\ started' = FALSE /\ clean' = TRUE
      /\ accepted' = 0 /\ sent' = 0 /\ cctx' = cctx
  BY DEF reset
<1>2. ret'.status = "ok" /\ ret'.parts = {}
  BY DEF reset, Raised
<1>3. TypeOK'
  <2>1. {has', started', clean'} \subseteq BOOLEAN
    BY <1>1
  <2>2. {accepted', sent'} \subseteq Nat
    BY <1>1
  <2> QED
    BY <1>1, <1>2, <2>1, <2>2 DEF IInv, TypeOK, Statuses
<1>4. Held' /\ Clean'
  BY <1>1 DEF Held, Clean
<1>5. PromiseKept'
  BY <1>2 DEF PromiseKept
<1> QED
  BY <1>3, <1>4, <1>5 DEF IInv

\* The invariant is inductive.
LEMMA NextIInv == IInv /\ [Next]_vars => IInv'
<1> SUFFICES ASSUME IInv, [Next]_vars
             PROVE  IInv'
  OBVIOUS
<1>1. CASE \E p \in Choices : begin(p)
  BY <1>1, BeginStep
<1>2. CASE \E n \in 0..MaxContent : compress(n)
  BY <1>2, CompressStep
<1>3. CASE flush
  BY <1>3, FlushStep
<1>4. CASE reset
  BY <1>4, ResetStep
<1>5. CASE UNCHANGED vars
  BY <1>5 DEF vars, IInv, TypeOK, Held, Clean, PromiseKept
<1> QED
  BY <1>1, <1>2, <1>3, <1>4, <1>5 DEF Next
-----------------------------------------------------------------------------
(* The room compress_chunk and compress_flush allocate.                    *)

\* A call that raises for another reason returns nothing.
LEMMA RaisedHasRoom ==
  ASSUME NEW r \in Statuses, r # "tooSmall", ret' = Raised(r)
  PROVE  NeverTooSmall'
<1>1. ret'.status = r /\ ret'.written = 0 /\ ret'.cap = 0
  BY DEF Raised
<1>2. 0 <= 0
  BY SMT
<1> QED BY <1>1, <1>2 DEF NeverTooSmall

\* compress_chunk allocates what LZ4F_compressUpdate asks for, and more than it
\* then writes.
LEMMA ChunkHasRoom ==
  ASSUME NEW c, ContentSizes \in SUBSET Nat, IsContext(c, ContentSizes),
         NEW from \in Nat, NEW n \in Nat, Sound(c, from)
  PROVE  /\ ~ (ChunkCapacity(c, n) < compressBound_internal(n, c.prefs, c.tmpInSize))
         /\ Written(c.prefs, UpdateBlocks(c, from, n)) <= ChunkCapacity(c, n)
<1> DEFINE need == compressBound_internal(n, c.prefs, c.tmpInSize)
<1> DEFINE written == Written(c.prefs, UpdateBlocks(c, from, n))
<1> DEFINE bound == compressBound(n, c.prefs)
<1>1. /\ need <= bound /\ written <= bound /\ bound \in Nat /\ need \in Nat /\ written \in Nat
  BY RoomForUpdate
<1>2. c.prefs.autoFlush \in BOOLEAN /\ c.prefs \in Preferences(ContentSizes)
  BY ContextTypes, PreferenceTypes
<1>3. CASE ~ c.prefs.autoFlush
  <2>1. ChunkCapacity(c, n) = bound
    BY <1>3 DEF ChunkCapacity
  <2> HIDE DEF need, written, bound
  <2>2. ~ (bound < need)
    BY <1>1, SMT
  <2> QED BY <1>1, <2>1, <2>2 DEF need, written
<1>4. CASE c.prefs.autoFlush
  <2>1. ChunkCapacity(c, n) = maxFHSize + compressBound_internal(n, [c.prefs EXCEPT !.autoFlush = TRUE], 0)
    BY <1>4 DEF ChunkCapacity, compressFrameBound
  <2>2. [c.prefs EXCEPT !.autoFlush = TRUE] = c.prefs
    BY <1>2, <1>4 DEF Preferences
  <2>3. bound = compressBound_internal(n, c.prefs, 0)
    BY <1>4 DEF compressBound
  <2> HIDE DEF need, written, bound
  <2>4. ChunkCapacity(c, n) = 19 + bound
    BY <2>1, <2>2, <2>3 DEF maxFHSize
  <2>5. ~ (19 + bound < need) /\ written <= 19 + bound
    BY <1>1, SMT
  <2> QED BY <2>4, <2>5 DEF need, written
<1> QED BY <1>2, <1>3, <1>4

\* compress_flush allocates what is needed for what waits and the footer.
LEMMA FlushHasRoom ==
  ASSUME NEW c, ContentSizes \in SUBSET Nat, IsContext(c, ContentSizes),
         NEW next \in Nat, c.tmpInSize = 0 \/ Sound(c, next)
  PROVE  /\ ~ FlushTooSmall(c) /\ ~ FooterTooSmall(c)
         /\ FlushSize(c) + FooterSize(c.prefs) <= FlushCapacity(c)
<1> DEFINE cap == FlushCapacity(c)
<1> DEFINE size == FlushSize(c)
<1> DEFINE F == FooterSize(c.prefs)
<1> DEFINE asked == c.tmpInSize + BHSize + BFSize
<1>1. /\ size + F <= cap /\ cap \in Nat /\ size \in Nat
      /\ c.tmpInSize > 0 => asked <= cap
  BY RoomForFlush DEF FlushCapacity, FlushSize
<1>2. F \in Nat
  BY Extras
<1>3. c.tmpInSize \in Nat /\ BHSize \in Nat /\ BFSize \in Nat
  BY ContextTypes DEF BHSize, BFSize
<1>4. asked \in Nat
  BY <1>3, SMT
<1> HIDE DEF cap, size, F, asked
<1>5. ~ (cap - size < F)
  BY <1>1, <1>2, SMT
<1>6. ~ (c.tmpInSize > 0 /\ cap < asked)
  BY <1>1, <1>4, SMT
<1> QED BY <1>1, <1>5, <1>6 DEF FlushTooSmall, FooterTooSmall, cap, size, F, asked

\* No step is refused for lack of room, or returns more than there is.
LEMMA StepHasRoom ==
  ASSUME IInv, [Next]_vars, NeverTooSmall
  PROVE  NeverTooSmall'
<1>0. /\ ContentSizes \in SUBSET Nat /\ IsContext(cctx, ContentSizes)
      /\ accepted \in Nat /\ cctx.tmpInSize \in Nat /\ cctx.cStage \in {0, 1}
  BY Types
<1>1. ASSUME Refuse PROVE NeverTooSmall'
  <2>1. ret' = Raised("refused") /\ "refused" \in Statuses /\ "refused" # "tooSmall"
    BY <1>1 DEF Refuse, Statuses
  <2> QED BY <2>1, RaisedHasRoom
<1>2. CASE \E p \in Choices : begin(p)
  <2>1. PICK p \in Choices : begin(p)
    BY <1>2
  <2>2. CASE BeginDone(p)
    <3>1. ret'.status = "ok" /\ ret'.written = HeaderSize(p) /\ ret'.cap = 32
      BY <2>2 DEF BeginDone, HeaderReturned, Returned
    <3>2. HeaderSize(p) <= 32
      BY SMT DEF HeaderSize
    <3> QED BY <3>1, <3>2 DEF NeverTooSmall
  <2>3. CASE BeginRaises(p) \/ CreateRaises
    <3>1. ret' \in {Raised("MemoryError"), Raised("allocation")}
      BY <2>3 DEF BeginRaises, BeginFailures, CreateRaises
    <3>2. /\ "MemoryError" \in Statuses /\ "MemoryError" # "tooSmall"
          /\ "allocation" \in Statuses /\ "allocation" # "tooSmall"
      BY DEF Statuses
    <3> QED BY <3>1, <3>2, RaisedHasRoom
  <2> QED BY <1>1, <2>1, <2>2, <2>3 DEF begin
<1>3. CASE \E n \in 0..MaxContent : compress(n)
  <2>1. PICK n \in 0..MaxContent : compress(n)
    BY <1>3
  <2>2. n \in Nat
    BY Types
  <2>3. CASE has /\ started /\ (CompressDone(n) \/ CompressRaises(n))
    <3>1. cctx.cStage = 1 =>
            /\ ~ (ChunkCapacity(cctx, n) < compressBound_internal(n, cctx.prefs, cctx.tmpInSize))
            /\ Written(cctx.prefs, UpdateBlocks(cctx, accepted, n)) <= ChunkCapacity(cctx, n)
      <4>1. cctx.cStage = 1 => Sound(cctx, accepted)
        BY <2>3 DEF IInv, Held
      <4> QED BY <1>0, <2>2, <4>1, ChunkHasRoom
    <3>2. CASE ret' = ChunkReturned(cctx, accepted, n) /\ ~ ChunkRefused(cctx, n)
      <4>1. /\ ret'.status = "ok" /\ ret'.cap = ChunkCapacity(cctx, n)
            /\ ret'.written = Written(cctx.prefs, UpdateBlocks(cctx, accepted, n))
        BY <3>2 DEF ChunkReturned, Returned
      <4>2. cctx.cStage = 1
        BY <3>2 DEF ChunkRefused
      <4> QED BY <3>1, <4>1, <4>2 DEF NeverTooSmall
    <3>3. CASE ret' = Raised("MemoryError")
      BY <3>3, RaisedHasRoom DEF Statuses
    <3>4. CASE ret' = ChunkRaised(cctx) /\ ChunkRefused(cctx, n)
      <4>1. cctx.cStage # 1
        BY <3>1, <3>4 DEF ChunkRefused
      <4>2. ret' = Raised("notStarted")
        BY <3>4, <4>1 DEF ChunkRaised
      <4> QED BY <4>2, RaisedHasRoom DEF Statuses
    <3> QED BY <2>3, <3>2, <3>3, <3>4 DEF CompressDone, CompressRaises
  <2> QED BY <1>1, <2>1, <2>3 DEF compress
<1>4. CASE flush
  <2>1. CASE has /\ (FlushReturns \/ FlushRaises)
    <3>1. ~ FlushNotStarted(cctx) =>
            /\ ~ FlushTooSmall(cctx) /\ ~ FooterTooSmall(cctx)
            /\ FlushSize(cctx) + FooterSize(cctx.prefs) <= FlushCapacity(cctx)
      <4>1. cctx.tmpInSize = 0 \/ Sound(cctx, accepted)
        BY <2>1 DEF IInv, Held
      <4> QED BY <1>0, <4>1, FlushHasRoom
    <3>2. CASE FlushReturns
      <4>1. ~ FlushNotStarted(cctx) /\ ret' = FlushReturned(cctx, TRUE)
        BY <3>2 DEF FlushReturns, FlushRefused
      <4>2. /\ ret'.status = "ok" /\ ret'.cap = FlushCapacity(cctx)
            /\ ret'.written = FlushSize(cctx) + FooterSize(cctx.prefs)
        BY <4>1 DEF FlushReturned, Returned
      <4> QED BY <3>1, <4>1, <4>2 DEF NeverTooSmall
    <3>3. CASE FlushRaises
      <4>1. CASE ret' = FlushRaised(cctx) /\ FlushRefused(cctx, TRUE)
        <5>1. FlushNotStarted(cctx)
          BY <3>1, <4>1 DEF FlushRefused
        <5>2. ret' = Raised("notStarted")
          BY <4>1, <5>1 DEF FlushRaised
        <5> QED BY <5>2, RaisedHasRoom DEF Statuses
      <4>2. CASE ret' = Raised("MemoryError") \/ ret' = Raised("frameSize")
        BY <4>2, RaisedHasRoom DEF Statuses
      <4> QED BY <3>3, <4>1, <4>2 DEF FlushRaises
    <3> QED BY <2>1, <3>2, <3>3
  <2> QED BY <1>1, <1>4, <2>1 DEF flush
<1>5. CASE reset
  <2>1. ret' = Raised("ok") /\ "ok" \in Statuses /\ "ok" # "tooSmall"
    BY <1>5 DEF reset, Statuses
  <2> QED BY <2>1, RaisedHasRoom
<1>6. CASE UNCHANGED vars
  BY <1>6 DEF vars, NeverTooSmall
<1> QED BY <1>2, <1>3, <1>4, <1>5, <1>6 DEF Next
-----------------------------------------------------------------------------
(* The theorems.                                                           *)

\* The invariant holds between the calls of LZ4FrameCompressor.
THEOREM Invariant == Spec => []IInv
<1>1. Init => IInv
  BY InitIInv
<1>2. IInv /\ [Next]_vars => IInv'
  BY NextIInv
<1> QED
  BY <1>1, <1>2, PTL DEF Spec

\* The attributes and the context of LZ4FrameCompressor keep to their types.
THEOREM TypeCorrect == Spec => []TypeOK
<1>1. IInv => TypeOK
  BY DEF IInv
<1> QED
  BY <1>1, Invariant, PTL

\* _started, _context and the C stage agree until a call fails
\* (__init__.py:211-224, 278-285).
THEOREM FlagsAlwaysAgree == Spec => []FlagsAgree
<1>1. IInv => FlagsAgree
  BY DEF IInv, Clean, FlagsAgree
<1> QED
  BY <1>1, Invariant, PTL

\* Failures included: a context the class compresses into has the room, the
\* waiting bytes and the history the next call relies on.
THEOREM ContextAlwaysSound == Spec => []ContextSound
<1>1. IInv => ContextSound
  BY DEF IInv, Held, ContextSound, Sound
<1> QED
  BY <1>1, Invariant, PTL

\* A frame that closes cleanly has the content size it announced
\* (lz4frame.c:1181-1184).
THEOREM SizeAlwaysKept == Spec => []PromiseKept
<1>1. IInv => PromiseKept
  BY DEF IInv
<1> QED
  BY <1>1, Invariant, PTL

\* The room _frame.c allocates is always enough: LZ4F refuses no call for lack
\* of it and writes no more than it, whatever failed before
\* (_frame.c:461-470, 585; lz4frame.c:946-948, 1114, 1166-1172).
THEOREM NeverRefusedForRoom == Spec => []NeverTooSmall
<1>1. Init => NeverTooSmall
  <2>1. Init => ret.status = "ok" /\ ret.written = 0 /\ ret.cap = 0
    BY DEF Init, Raised
  <2>2. 0 <= 0
    BY SMT
  <2> QED BY <2>1, <2>2 DEF NeverTooSmall
<1>2. IInv /\ [Next]_vars /\ NeverTooSmall => NeverTooSmall'
  BY StepHasRoom
<1> QED
  BY <1>1, <1>2, Invariant, PTL DEF Spec

-----------------------------------------------------------------------------
(* The class implements FrameWriter.                                       *)

Longest == CHOOSE B \in BlockSizes : \A b \in BlockSizes : b <= B

writerPhase == IF ~ clean THEN "spoiled" ELSE IF started THEN "open" ELSE "idle"
writerGiven == IF clean THEN accepted ELSE 0
writerOut   == IF clean THEN sent ELSE 0

\* No frame's blocks are longer than the longest.
LEMMA LongestBlock ==
  Longest \in Nat /\ Longest > 0 /\ \A b \in BlockSizes : b <= Longest
<1>1. Longest \in BlockSizes /\ \A b \in BlockSizes : b <= Longest
  BY LargestAssumption DEF Longest
<1> QED
  BY <1>1, BlockAssumption

\* Less than a block is held back by a context that is sound.
LEMMA HeldBack ==
  ASSUME ContentSizes \in SUBSET Nat, NEW c, IsContext(c, ContentSizes), Roomy(c)
  PROVE  c.tmpInSize < Longest
<1>1. c.tmpInSize \in Nat /\ c.prefs \in Preferences(ContentSizes)
  BY ContextTypes
<1>2. c.prefs.block \in BlockSizes /\ c.prefs.block \in Nat
  BY <1>1, PreferenceTypes DEF Preferences
<1>3. c.prefs.autoFlush \in BOOLEAN
  BY <1>1, PreferenceTypes
<1>4. CASE c.prefs.autoFlush
  BY <1>4, LongestBlock DEF Roomy
<1>5. CASE ~ c.prefs.autoFlush
  <2>1. c.tmpInSize < c.prefs.block /\ c.prefs.block <= Longest
    BY <1>2, <1>5, LongestBlock DEF Roomy
  <2> QED
    BY <1>1, <1>2, <2>1, LongestBlock
<1> QED
  BY <1>3, <1>4, <1>5

\* A call that fails part-way spoils the frame.
LEMMA SpoilStep ==
  ASSUME clean' = FALSE
  PROVE  Writer!WriterNext
BY DEF Writer!WriterNext, Writer!Spoil

\* Every call of the class is a step of FrameWriter or leaves it alone.
LEMMA StepRefines ==
  ASSUME IInv, IInv', [Next]_vars
  PROVE  Writer!WriterNext \/ UNCHANGED <<writerPhase, writerGiven, writerOut>>
<1>1. /\ accepted \in Nat /\ sent \in Nat /\ cctx.tmpInSize \in Nat
      /\ has \in BOOLEAN /\ started \in BOOLEAN /\ clean \in BOOLEAN
  BY Types
<1>2. CASE Refuse \/ UNCHANGED vars
  BY <1>2 DEF Refuse, vars, writerPhase, writerGiven, writerOut
<1>3. CASE \E p \in Choices : begin(p)
  <2>1. PICK p \in Choices : begin(p)
    BY <1>3
  <2>2. CASE ~ started /\ BeginDone(p)
    BY <2>2 DEF BeginDone, Writer!WriterNext, Writer!Open
  <2>3. CASE BeginRaises(p)
    BY <2>3, SpoilStep DEF BeginRaises
  <2>4. CASE CreateRaises
    BY <2>4 DEF CreateRaises, writerPhase, writerGiven, writerOut
  <2> QED
    BY <1>2, <2>1, <2>2, <2>3, <2>4 DEF begin
<1>4. CASE \E n \in 0..MaxContent : compress(n)
  <2>1. PICK n \in 0..MaxContent : compress(n)
    BY <1>4
  <2>2. CASE has /\ started /\ UNCHANGED <<has, started, clean>> /\ clean /\ CompressDone(n)
             /\ sent' = sent + UpdateBytes(cctx, n)
    <3>1. /\ clean' = clean /\ clean /\ started /\ started' = started
          /\ accepted' = accepted + n /\ sent' = sent + UpdateBytes(cctx, n)
          /\ cctx.cStage = 1 /\ cctx' = Update(cctx, accepted, n)
      BY <2>2 DEF CompressDone, ChunkRefused
    <3>2. Sound(cctx, accepted) /\ IsContext(cctx, ContentSizes)
      BY <2>2, <3>1, Types DEF IInv, Held
    <3>3. UpdateBytes(cctx, n) \in Nat
      <4>1. n \in Nat /\ ContentSizes \in SUBSET Nat
        BY Types
      <4> QED
        BY <1>1, <3>2, <4>1, UpdateSound
    <3>4. sent' + cctx'.tmpInSize = accepted'
      BY <3>1 DEF IInv, Clean
    <3>5. Sound(cctx', accepted') /\ IsContext(cctx', ContentSizes)
      <4>1. has' /\ started' /\ cctx'.cStage = 1
        BY <2>2, <3>1 DEF IInv, Clean
      <4> QED
        BY <4>1 DEF IInv, Held, TypeOK
    <3>6. cctx'.tmpInSize < Longest /\ cctx'.tmpInSize \in Nat
      BY <3>5, HeldBack, Types, ContextTypes DEF Sound
    <3>7. accepted' \in Nat /\ sent' \in Nat
      BY DEF IInv, TypeOK
    <3>8. /\ accepted' >= accepted /\ sent' >= sent
          /\ sent' <= accepted' /\ accepted' - sent' < Longest
      BY <1>1, <3>1, <3>3, <3>4, <3>6, <3>7, LongestBlock
    <3> QED
      BY <3>1, <3>7, <3>8 DEF Writer!WriterNext, Writer!Put, Longest
  <2>3. CASE clean' = FALSE
    BY <2>3, SpoilStep
  <2>4. clean' = FALSE \/ clean' = clean
    BY <2>1 DEF compress, CompressDone, CompressRaises, Refuse
  <2>5. CASE clean' = clean /\ clean /\ has /\ started
    <3>1. CompressDone(n) \/ CompressRaises(n)
      BY <2>1, <2>5 DEF compress
    <3>2. UNCHANGED <<has, started>>
      BY <2>1, <2>5 DEF compress
    <3>3. CompressDone(n) /\ sent' = sent + UpdateBytes(cctx, n)
      BY <2>5, <3>1 DEF CompressDone, CompressRaises
    <3> QED
      BY <2>2, <2>5, <3>2, <3>3
  <2>6. CASE ~ (has /\ started)
    BY <1>2, <2>1, <2>6 DEF compress
  <2> QED
    BY <1>1, <2>3, <2>4, <2>5, <2>6
<1>5. CASE flush
  <2>1. CASE has /\ FlushReturns
    <3>1. CASE clean
      <4>1. started /\ sent + cctx.tmpInSize = accepted
        BY <2>1, <3>1 DEF IInv, Clean
      <4>2. /\ sent' = sent + cctx.tmpInSize /\ accepted' = accepted
            /\ clean' = clean /\ started' = FALSE
        BY <2>1 DEF FlushReturns
      <4>3. sent' = accepted
        BY <4>1, <4>2
      <4> QED
        BY <3>1, <4>1, <4>2, <4>3 DEF Writer!WriterNext, Writer!Close
    <3>2. CASE ~ clean
      BY <1>1, <2>1, <3>2, SpoilStep DEF FlushReturns
    <3> QED
      BY <3>1, <3>2
  <2>2. CASE has /\ FlushRaises
    BY <2>2, SpoilStep DEF FlushRaises
  <2> QED
    BY <1>2, <1>5, <2>1, <2>2 DEF flush
<1>6. CASE reset
  BY <1>6 DEF reset, Writer!WriterNext, Writer!Drop
<1> QED
  BY <1>2, <1>3, <1>4, <1>5, <1>6 DEF Next

\* Whoever concatenates what begin, compress and flush return gets the content
\* in order, less than a block behind, and all of it once flush has returned.
THEOREM ImplementsWriter == Spec => WriterSpec
<1>1. Init => Writer!WriterInit
  BY DEF Init, Writer!WriterInit
<1>2. IInv /\ IInv' /\ [Next]_vars => [Writer!WriterNext]_<<writerPhase, writerGiven, writerOut>>
  BY StepRefines
<1>3. Spec => []IInv
  BY Invariant
<1>4. <<writerPhase, writerGiven, writerOut>> = Writer!wvars
  BY DEF writerPhase, writerGiven, writerOut, Writer!wvars
<1>5. IInv /\ IInv' /\ [Next]_vars => [Writer!WriterNext]_Writer!wvars
  BY <1>2 DEF writerPhase, writerGiven, writerOut, Writer!wvars
<1> QED
  BY <1>1, <1>3, <1>5, PTL DEF Spec, WriterSpec, Writer!WriterSpec

-----------------------------------------------------------------------------
(* Files.                                                                  *)

\* What a file is made of, and what a decompressor is.
UnitKinds == {"header", "block", "end", "skippable", "torn"}
Units     == [kind : UnitKinds, size : Nat, data : Seq(Int)]
Intact    == {u \in Units : u.kind # "torn"}
Decoders  == [open : BOOLEAN, announced : Nat, count : Nat, pending : Seq(Int),
              room : Int, out : Seq(Int), result : {"more", "end", "error"}]

\* Which calls may be in progress, and what they find.
Calling ==
  /\ mode \in {"closed", "read", "write"}
  /\ step \in {"idle", "begin", "compress", "orphan", "closing"}
  /\ mode # "write" => step = "idle" /\ ~ has /\ ~ started
  /\ mode = "write" => ~ cut
  /\ mode # "read" => rd = NewReader(1)
  /\ mode # "closed" => shot = NoShot
  /\ started => has
  /\ step = "begin" => ~ started
  /\ step = "closing" /\ started => failed
  /\ step = "compress" => started /\ todo \in 0 .. MaxContent
  /\ step = "begin" => todo = -1 \/ todo \in 0 .. MaxContent

FileTypes ==
  /\ disk \in Seq(Units)
  /\ {total, base, opens} \subseteq Nat
  /\ {failed, lost, cut} \subseteq BOOLEAN
  /\ prefs.size \in Nat
  /\ mode = "write" => prefs \in Choices
  /\ ~ cut => disk \in Seq(Intact)
  /\ \A i \in 1 .. Len(disk) : disk[i].kind = "torn" => i = Len(disk)

\* The content of the file's first k units is the first that was given.
TrueTo(units, k) ==
  LET w == WholeTo(units, k) IN w.out = Positions(0, Len(w.out))

TrueRow(units) == \A k \in 0 .. Len(units) : TrueTo(units, k)

\* A frame is open, with so many bytes of the content in it and in all.
OpenAt(w, size, count, length) ==
  w.open /\ w.result = "more" /\ w.announced = size /\ w.count = count /\ Len(w.out) = length

\* A frame being written, and what there is of it in the file.
Underway(w) ==
  /\ started /\ OpenAt(w, prefs.size, sent, base + sent)
  /\ total = base + accepted
  /\ cctx.prefs.size = prefs.size
  /\ IF cctx.cStage = 1 THEN sent + cctx.tmpInSize = accepted ELSE WrongSize(cctx)

\* Between frames.
Complete(w) == ~ started /\ w.result = "end" /\ Len(w.out) = total

\* The frame could not be ended, and never is.
Abandoned(w) == ~ started /\ ~ has /\ failed /\ w.open /\ w.result = "more"

InFile(w) == w.result = "error" \/ Underway(w) \/ Complete(w) \/ Abandoned(w)

Row ==
  /\ ~ lost => TrueRow(disk)
  /\ ~ lost /\ ~ cut => InFile(Whole(disk))
  /\ ~ failed => clean /\ ~ lost
  /\ ~ failed /\ ~ cut => Whole(disk).result # "error"

\* What a reader has in hand of the file, and how many units it is past.
InHand(r) == IF r.busy THEN r.input ELSE IF r.eof THEN r.unused ELSE r.unconsumed
Past(r)   == r.at - Len(InHand(r))

\* A decompressor that has been given nothing yet of a frame.
Unbegun(d) == ~ d.open /\ d.result = "more" /\ d.pending = << >> /\ d.out = << >>

\* A decompressor stands where one with all the room there is would.
Agrees(d, w) ==
  /\ d.open = w.open
  /\ d.open => d.announced = w.announced /\ d.count = w.count
  /\ d.result = "end" => d.pending = << >>

\* What it gave out and has waiting are the last of the content so far.
Follows(w, pos, out, pending) ==
  /\ Len(w.out) = (pos + Len(out)) + Len(pending)
  /\ \A i \in 1 .. Len(out) : out[i] = w.out[pos + i]
  /\ \A i \in 1 .. Len(pending) : pending[i] = w.out[(pos + Len(out)) + i]

Readers ==
  [raw : Nat \ {0}, input : Seq(Units), busy : BOOLEAN, dec : Decoders,
   unconsumed : Seq(Units), unused : Seq(Units), eof : BOOLEAN, needs_input : BOOLEAN,
   at : Nat, pos : Nat, end : BOOLEAN, want : Nat, skip : Nat, data : Seq(Int), raised : BOOLEAN]

\* In a call, and between two.
InCall(r, w) ==
  /\ w.result # r.dec.result => r.input # << >>
  /\ Follows(w, r.pos, r.dec.out, r.dec.pending)

BetweenCalls(r, w) ==
  /\ w.result # r.dec.result => Past(r) = 0 /\ ~ r.eof /\ r.needs_input
  /\ w.result # "error" /\ r.eof = (r.dec.result = "end")
  /\ Follows(w, r.pos, << >>, r.dec.pending)
  /\ ~ r.eof /\ r.needs_input => r.unconsumed = << >>

\* A reader is somewhere in the units of a file.
In(r, units) ==
  /\ r.at <= Len(units) /\ Len(InHand(r)) <= r.at
  /\ \A i \in 1 .. Len(InHand(r)) : InHand(r)[i] = units[Past(r) + i]
  /\ LET w == WholeTo(units, Past(r))
     IN  /\ \/ w.result = r.dec.result /\ Agrees(r.dec, w)
            \/ w.result = "end" /\ Unbegun(r.dec)
         /\ IF r.busy THEN InCall(r, w) ELSE BetweenCalls(r, w)

ReaderIn(r, units) ==
  /\ r \in Readers
  /\ ~ r.raised => In(r, units)
  /\ r.busy => r.want > 0 /\ ~ r.raised
  /\ r.end \/ r.raised => r.want = 0

\* The properties, of a reader and the units of a file.
DataIsTrue(r) == r.data = Positions(r.pos - Len(r.data), Len(r.data))

Honest(r, units) ==
  /\ r.end => Whole(units).result = "end" /\ r.pos = Len(Whole(units).out)
  /\ r.raised => units = << >> \/ Whole(units).result # "end"

ReaderRight == ReaderIn(rd, disk) /\ Honest(rd, disk) /\ (~ lost => DataIsTrue(rd))

\* The inductive invariant of FrameFile.
FInv == IInv /\ NeverTooSmall /\ Calling /\ FileTypes /\ Row /\ ReaderRight

-----------------------------------------------------------------------------
(* Rows of units read one by one.                                          *)

\* f[j] is how a reader of the first j units stands.
IsWholeTo(f, k, units) ==
  f = [j \in 0 .. k |-> IF j = 0 THEN [Fresh EXCEPT !.room = -1, !.result = "end"]
                        ELSE Onward(f[j - 1], units[j])]

\* The recursive function in WholeTo exists.
LEMMA WholeToExists ==
  ASSUME NEW k \in Nat, NEW units
  PROVE  \E f : IsWholeTo(f, k, units)
<1> DEFINE Good == {n \in Nat : \E f : IsWholeTo(f, n, units)}
<1> DEFINE start == [Fresh EXCEPT !.room = -1, !.result = "end"]
<1>1. 0 \in Good
  <2> DEFINE f == [j \in 0 .. 0 |-> start]
  <2>1. f = [j \in 0 .. 0 |-> IF j = 0 THEN start ELSE Onward(f[j - 1], units[j])]
    <3> HIDE DEF start
    <3> QED BY SMT
  <2> HIDE DEF f
  <2>2. IsWholeTo(f, 0, units)
    BY <2>1 DEF IsWholeTo
  <2> QED BY <2>2
<1>2. ASSUME NEW n \in Good \cap Nat PROVE n + 1 \in Good
  <2>0. n \in Nat /\ n + 1 \in Nat
    BY SMT
  <2>1. PICK f : IsWholeTo(f, n, units)
    OBVIOUS
  <2> HIDE DEF start
  <2>2. \A j \in 0 .. n : f[j] = IF j = 0 THEN start ELSE Onward(f[j - 1], units[j])
    BY <2>1 DEF IsWholeTo, start
  <2> DEFINE g == [j \in 0 .. n + 1 |-> IF j = n + 1 THEN Onward(f[n], units[n + 1]) ELSE f[j]]
  <2>3. ASSUME NEW j \in 0 .. n + 1
        PROVE  g[j] = IF j = 0 THEN start ELSE Onward(g[j - 1], units[j])
    <3>1. CASE j = n + 1
      <4>1. j # 0 /\ j - 1 = n /\ j - 1 \in 0 .. n + 1 /\ j - 1 # n + 1
        BY <2>0, <3>1, SMT
      <4>2. g[j - 1] = f[n]
        BY <4>1, Zenon
      <4>3. g[j] = Onward(f[n], units[n + 1])
        BY <3>1, Zenon
      <4> HIDE DEF g
      <4> QED BY <3>1, <4>1, <4>2, <4>3, Zenon
    <3>2. CASE j # n + 1
      <4>1. j \in 0 .. n
        BY <2>0, <3>2, SMT
      <4>2. j # 0 => j - 1 \in 0 .. n + 1 /\ j - 1 # n + 1
        BY <2>0, <4>1, SMT
      <4>3. g[j] = f[j]
        BY <3>2, Zenon
      <4>4. j # 0 => g[j - 1] = f[j - 1]
        BY <4>2, Zenon
      <4> HIDE DEF g
      <4> QED BY <2>2, <4>1, <4>3, <4>4, Zenon
    <3> QED BY <3>1, <3>2
  <2>4. IsWholeTo(g, n + 1, units)
    <3>1. g = [j \in 0 .. n + 1 |-> g[j]]
      BY Zenon
    <3> HIDE DEF g
    <3>2. g = [j \in 0 .. n + 1 |-> IF j = 0 THEN start ELSE Onward(g[j - 1], units[j])]
      BY <2>3, <3>1, Zenon
    <3> QED BY <3>2 DEF IsWholeTo, start
  <2> QED BY <2>0, <2>4
<1>3. Nat \subseteq Good
  <2> HIDE DEF Good
  <2> QED BY <1>1, <1>2, SetInduction
<1> QED BY <1>3

\* It is determined by the units it reads.
LEMMA WholeToUnique ==
  ASSUME NEW k \in Nat, NEW n \in Nat, NEW units, NEW others, NEW f, NEW g,
         IsWholeTo(f, k, units), IsWholeTo(g, n, others),
         NEW m \in Nat, m <= k, m <= n, \A j \in 1 .. m : units[j] = others[j]
  PROVE  \A j \in 0 .. m : f[j] = g[j]
<1> DEFINE start == [Fresh EXCEPT !.room = -1, !.result = "end"]
<1> DEFINE Good == {i \in Nat : i <= m => f[i] = g[i]}
<1> HIDE DEF start
<1>1. \A j \in 0 .. k : f[j] = IF j = 0 THEN start ELSE Onward(f[j - 1], units[j])
  BY Zenon DEF IsWholeTo, start
<1>2. \A j \in 0 .. n : g[j] = IF j = 0 THEN start ELSE Onward(g[j - 1], others[j])
  BY Zenon DEF IsWholeTo, start
<1>3. 0 \in Good
  <2>1. 0 \in 0 .. k /\ 0 \in 0 .. n
    BY SMT
  <2> QED BY <1>1, <1>2, <2>1, Zenon
<1>4. ASSUME NEW i \in Good \cap Nat PROVE i + 1 \in Good
  <2>0. i \in Nat /\ i + 1 \in Nat
    BY SMT
  <2>1. SUFFICES ASSUME i + 1 <= m PROVE f[i + 1] = g[i + 1]
    BY <2>0
  <2>2. i <= m /\ i + 1 \in 0 .. k /\ i + 1 \in 0 .. n /\ i + 1 # 0 /\ (i + 1) - 1 = i /\ i + 1 \in 1 .. m
    BY <2>0, <2>1, SMT
  <2>3. f[i] = g[i]
    BY <2>2
  <2>4. f[i + 1] = Onward(f[i], units[i + 1]) /\ g[i + 1] = Onward(g[i], others[i + 1])
    BY <1>1, <1>2, <2>2, Zenon
  <2> QED BY <2>2, <2>3, <2>4, Zenon
<1>5. Nat \subseteq Good
  <2> HIDE DEF Good
  <2> QED BY <1>3, <1>4, SetInduction
<1>6. ASSUME NEW j \in 0 .. m PROVE f[j] = g[j]
  <2>1. j \in Nat /\ j <= m
    BY SMT
  <2>2. j \in Good
    BY <1>5, <2>1
  <2> QED BY <2>1, <2>2
<1> QED BY <1>6

LEMMA WholeToIs ==
  ASSUME NEW k \in Nat, NEW units
  PROVE  \E f : IsWholeTo(f, k, units) /\ f[k] = WholeTo(units, k)
<1> DEFINE f == CHOOSE f : f = [j \in 0 .. k |-> IF j = 0 THEN [Fresh EXCEPT !.room = -1, !.result = "end"]
                                                 ELSE Onward(f[j - 1], units[j])]
<1>1. PICK g : IsWholeTo(g, k, units)
  BY WholeToExists
<1>2. f = [j \in 0 .. k |-> IF j = 0 THEN [Fresh EXCEPT !.room = -1, !.result = "end"]
                            ELSE Onward(f[j - 1], units[j])]
  BY <1>1 DEF IsWholeTo
<1>3. f[k] = WholeTo(units, k)
  BY DEF WholeTo
<1> HIDE DEF f
<1>4. IsWholeTo(f, k, units)
  BY <1>2 DEF IsWholeTo
<1> QED BY <1>3, <1>4

\* A reader starts between frames, and goes on unit by unit.
LEMMA WholeToStart ==
  ASSUME NEW units
  PROVE  WholeTo(units, 0) = [Fresh EXCEPT !.room = -1, !.result = "end"]
<1>1. PICK f : IsWholeTo(f, 0, units) /\ f[0] = WholeTo(units, 0)
  BY WholeToIs, SMT
<1>2. 0 \in 0 .. 0
  BY SMT
<1> QED BY <1>1, <1>2, Zenon DEF IsWholeTo

LEMMA WholeToNext ==
  ASSUME NEW units, NEW k \in Nat
  PROVE  WholeTo(units, k + 1) = Onward(WholeTo(units, k), units[k + 1])
<1>1. k + 1 \in Nat /\ k + 1 \in 0 .. k + 1 /\ k + 1 # 0 /\ (k + 1) - 1 = k /\ k \in 0 .. k
      /\ k <= k + 1 /\ k <= k
  BY SMT
<1>2. PICK f : IsWholeTo(f, k + 1, units) /\ f[k + 1] = WholeTo(units, k + 1)
  BY <1>1, WholeToIs
<1>3. PICK g : IsWholeTo(g, k, units) /\ g[k] = WholeTo(units, k)
  BY WholeToIs
<1>4. f[k] = g[k]
  BY <1>1, <1>2, <1>3, WholeToUnique
<1>5. f[k + 1] = Onward(f[k], units[k + 1])
  BY <1>1, <1>2, Zenon DEF IsWholeTo
<1> QED BY <1>2, <1>3, <1>4, <1>5

\* Rows that begin with the same units are read the same so far.
LEMMA WholeToSame ==
  ASSUME NEW units, NEW others, NEW k \in Nat, \A j \in 1 .. k : units[j] = others[j]
  PROVE  WholeTo(units, k) = WholeTo(others, k)
<1>1. PICK f : IsWholeTo(f, k, units) /\ f[k] = WholeTo(units, k)
  BY WholeToIs
<1>2. PICK g : IsWholeTo(g, k, others) /\ g[k] = WholeTo(others, k)
  BY WholeToIs
<1>3. k <= k /\ k \in 0 .. k
  BY SMT
<1>4. f[k] = g[k]
  BY <1>1, <1>2, <1>3, WholeToUnique
<1> QED BY <1>1, <1>2, <1>4

-----------------------------------------------------------------------------
(* The operators on a decompressor.                                        *)

\* A record is known by its fields.
LEMMA DecoderIs ==
  ASSUME NEW d
  PROVE  d \in Decoders <=>
           /\ d = [open |-> d.open, announced |-> d.announced, count |-> d.count,
                   pending |-> d.pending, room |-> d.room, out |-> d.out, result |-> d.result]
           /\ d.open \in BOOLEAN /\ d.announced \in Nat /\ d.count \in Nat /\ d.room \in Int
           /\ d.pending \in Seq(Int) /\ d.out \in Seq(Int) /\ d.result \in {"more", "end", "error"}
BY DEF Decoders

LEMMA UnitIs ==
  ASSUME NEW u \in Units
  PROVE  u.kind \in UnitKinds /\ u.size \in Nat /\ u.data \in Seq(Int)
BY DEF Units

LEMMA FreshIs ==
  /\ Fresh \in Decoders
  /\ ~ Fresh.open /\ Fresh.announced = 0 /\ Fresh.count = 0 /\ Fresh.pending = << >>
  /\ Fresh.room = 0 /\ Fresh.out = << >> /\ Fresh.result = "more"
<1>1. << >> \in Seq(Int)
  BY Zenon, EmptySeq
<1>2. /\ ~ Fresh.open /\ Fresh.announced = 0 /\ Fresh.count = 0 /\ Fresh.pending = << >>
      /\ Fresh.room = 0 /\ Fresh.out = << >> /\ Fresh.result = "more"
  BY DEF Fresh
<1>3. Fresh \in Decoders
  BY <1>1, SMT DEF Fresh, Decoders
<1> QED BY <1>2, <1>3

\* One with all the room there is, behind a frame and before the first.
LEMMA RoomyFreshIs ==
  ASSUME NEW o \in Seq(Int), NEW d, d = [Fresh EXCEPT !.room = -1, !.out = o]
  PROVE  /\ d \in Decoders /\ ~ d.open /\ d.pending = << >> /\ d.room = -1
         /\ d.out = o /\ d.result = "more"
<1>0. -1 \in Int
  BY SMT
<1>1. << >> \in Seq(Int)
  BY Zenon, EmptySeq
<1>2. Fresh \in Decoders /\ Fresh.pending = << >> /\ ~ Fresh.open /\ Fresh.result = "more"
  BY FreshIs
<1>3. d \in Decoders
  BY <1>0, <1>2, Zenon DEF Decoders
<1>4. ~ d.open /\ d.pending = << >> /\ d.room = -1 /\ d.out = o /\ d.result = "more"
  BY <1>2, SMT DEF Decoders
<1> QED BY <1>3, <1>4

LEMMA RoomyStartIs ==
  ASSUME NEW d, d = [Fresh EXCEPT !.room = -1, !.result = "end"]
  PROVE  /\ d \in Decoders /\ ~ d.open /\ d.pending = << >> /\ d.room = -1
         /\ d.out = << >> /\ d.result = "end"
<1>0. -1 \in Int
  BY SMT
<1>1. Fresh \in Decoders /\ Fresh.pending = << >> /\ ~ Fresh.open /\ Fresh.out = << >>
  BY FreshIs
<1>2. d \in Decoders
  BY <1>0, <1>1, Zenon DEF Decoders
<1>3. ~ d.open /\ d.pending = << >> /\ d.room = -1 /\ d.out = << >> /\ d.result = "end"
  BY <1>1, SMT DEF Decoders
<1> QED BY <1>2, <1>3

\* How much of what waits finds room.
Given(d) == IF d.room < 0 THEN Len(d.pending) ELSE Least(d.room, Len(d.pending))

LEMMA DrainedIs ==
  ASSUME NEW d \in Decoders
  PROVE  /\ Drained(d) \in Decoders
         /\ Given(d) \in 0 .. Len(d.pending)
         /\ d.room < 0 => Given(d) = Len(d.pending) /\ Drained(d).pending = << >> /\ Drained(d).room = d.room
         /\ Drained(d).out = d.out \o SubSeq(d.pending, 1, Given(d))
         /\ Drained(d).pending = SubSeq(d.pending, Given(d) + 1, Len(d.pending))
         /\ Drained(d).open = d.open /\ Drained(d).announced = d.announced
         /\ Drained(d).count = d.count /\ Drained(d).result = d.result
<1> DEFINE n == Given(d)
<1> DEFINE e == Drained(d)
<1> DEFINE o == d.out \o SubSeq(d.pending, 1, n)
<1> DEFINE q == SubSeq(d.pending, n + 1, Len(d.pending))
<1> DEFINE m == IF d.room < 0 THEN d.room ELSE d.room - n
<1>1. /\ d = [open |-> d.open, announced |-> d.announced, count |-> d.count,
              pending |-> d.pending, room |-> d.room, out |-> d.out, result |-> d.result]
      /\ d.open \in BOOLEAN /\ d.announced \in Nat /\ d.count \in Nat /\ d.room \in Int
      /\ d.pending \in Seq(Int) /\ d.out \in Seq(Int) /\ d.result \in {"more", "end", "error"}
  BY DecoderIs, Zenon
<1>2. Len(d.pending) \in Nat
  BY <1>1, LenProperties
<1>3. n \in 0 .. Len(d.pending) /\ (d.room < 0 => n = Len(d.pending)) /\ m \in Int
  BY <1>1, <1>2, SMT DEF Given, Least
<1>4. SubSeq(d.pending, 1, n) \in Seq(Int) /\ q \in Seq(Int) /\ (n = Len(d.pending) => q = << >>)
  BY <1>1, <1>2, <1>3, SMT
<1>5. o \in Seq(Int)
  BY <1>1, <1>4, ConcatProperties, Zenon
<1>6. e = [d EXCEPT !.out = o, !.pending = q, !.room = m]
  BY Zenon DEF Drained, Given, Without
<1> HIDE DEF n, o, q, m, e
<1>8. e \in Decoders
  BY <1>3, <1>4, <1>5, <1>6, Zenon DEF Decoders
<1>9. /\ e.out = o /\ e.pending = q /\ e.room = m /\ e.open = d.open /\ e.announced = d.announced
      /\ e.count = d.count /\ e.result = d.result
  BY <1>6, SMT DEF Decoders
<1> QED BY <1>3, <1>4, <1>8, <1>9, Zenon DEF n, o, q, m, e

\* The front of one sequence goes behind another.
LEMMA Split ==
  ASSUME NEW s \in Seq(Int), NEW t \in Seq(Int), NEW n \in 0 .. Len(t)
  PROVE  LET o == s \o SubSeq(t, 1, n)
             q == SubSeq(t, n + 1, Len(t))
         IN  /\ Len(o) = Len(s) + n /\ Len(q) = Len(t) - n
             /\ \A i \in 1 .. Len(s) : o[i] = s[i]
             /\ \A i \in 1 .. n : o[Len(s) + i] = t[i]
             /\ \A i \in 1 .. Len(t) - n : q[i] = t[n + i]
<1> DEFINE f == SubSeq(t, 1, n)
<1> DEFINE q == SubSeq(t, n + 1, Len(t))
<1>1. Len(s) \in Nat /\ Len(t) \in Nat /\ n \in Nat /\ n <= Len(t)
  BY LenProperties, SMT
<1>2. f \in Seq(Int) /\ Len(f) = n /\ \A i \in 1 .. n : f[i] = t[i]
  BY <1>1, SMT
<1>3. Len(q) = Len(t) - n /\ \A i \in 1 .. Len(t) - n : q[i] = t[n + i]
  BY <1>1, SMT
<1> HIDE DEF f, q
<1>4. /\ Len(s \o f) = Len(s) + n
      /\ \A i \in 1 .. Len(s) : (s \o f)[i] = s[i]
      /\ \A i \in 1 .. n : (s \o f)[Len(s) + i] = f[i]
  BY <1>1, <1>2, SMT
<1> QED BY <1>2, <1>3, <1>4, Zenon DEF f, q

\* What waits and what is given out stay the same content.
LEMMA DrainedFollows ==
  ASSUME NEW d \in Decoders, NEW w \in Decoders, NEW pos \in Nat, Follows(w, pos, d.out, d.pending)
  PROVE  Follows(w, pos, Drained(d).out, Drained(d).pending)
<1> DEFINE n == Given(d)
<1> DEFINE o == d.out \o SubSeq(d.pending, 1, n)
<1> DEFINE q == SubSeq(d.pending, n + 1, Len(d.pending))
<1>1. d.pending \in Seq(Int) /\ d.out \in Seq(Int) /\ w.out \in Seq(Int)
  BY DecoderIs
<1>2. n \in 0 .. Len(d.pending) /\ Drained(d).out = o /\ Drained(d).pending = q
  BY DrainedIs
<1>3. Len(d.pending) \in Nat /\ Len(d.out) \in Nat /\ Len(w.out) \in Nat
  BY <1>1, LenProperties
<1> HIDE DEF n
<1>4. /\ Len(o) = Len(d.out) + n /\ Len(q) = Len(d.pending) - n
      /\ \A i \in 1 .. Len(d.out) : o[i] = d.out[i]
      /\ \A i \in 1 .. n : o[Len(d.out) + i] = d.pending[i]
      /\ \A i \in 1 .. Len(d.pending) - n : q[i] = d.pending[n + i]
  BY <1>1, <1>2, Split, ZenonT(60)
<1> DEFINE A == Len(d.out)
<1> DEFINE B == Len(d.pending)
<1> DEFINE X == Len(o)
<1> DEFINE Y == Len(q)
<1>5. X = A + n /\ Y = B - n /\ A \in Nat /\ B \in Nat /\ n \in 0 .. B
  BY <1>2, <1>3, <1>4
<1>6. Len(w.out) = (pos + A) + B
  BY DEF Follows
<1>7. /\ \A i \in 1 .. A : o[i] = w.out[pos + i]
      /\ \A i \in 1 .. n : o[A + i] = d.pending[i]
      /\ \A i \in 1 .. Y : q[i] = d.pending[n + i]
      /\ \A i \in 1 .. B : d.pending[i] = w.out[(pos + A) + i]
  BY <1>4 DEF Follows
<1> HIDE DEF A, B, X, Y, o, q
<1>8. (pos + A) + B = (pos + X) + Y /\ X \in Nat /\ Y \in Nat /\ n \in Nat /\ n <= B
  BY <1>5, SMT
<1>9. ASSUME NEW i \in 1 .. X PROVE o[i] = w.out[pos + i]
  <2>1. CASE i <= A
    <3>1. i \in 1 .. A
      BY <1>5, <1>8, <2>1, SMT
    <3> QED BY <1>7, <3>1
  <2>2. CASE ~ (i <= A)
    <3> DEFINE k == i - A
    <3>1. k \in 1 .. n /\ k \in 1 .. B /\ A + k = i /\ (pos + A) + k = pos + i
      BY <1>5, <1>8, <2>2, SMT
    <3> HIDE DEF k
    <3>2. o[A + k] = d.pending[k] /\ d.pending[k] = w.out[(pos + A) + k]
      BY <1>7, <3>1
    <3> QED BY <3>1, <3>2
  <2> QED BY <2>1, <2>2
<1>10. ASSUME NEW i \in 1 .. Y PROVE q[i] = w.out[(pos + X) + i]
  <2>1. n + i \in 1 .. B /\ (pos + A) + (n + i) = (pos + X) + i
    BY <1>5, <1>8, SMT
  <2>2. q[i] = d.pending[n + i] /\ d.pending[n + i] = w.out[(pos + A) + (n + i)]
    BY <1>7, <2>1
  <2> QED BY <2>1, <2>2
<1> QED BY <1>2, <1>6, <1>8, <1>9, <1>10 DEF Follows, X, Y

\* A unit by its kind.
LEMMA TakeIs ==
  ASSUME NEW d \in Decoders, NEW u \in Units
  PROVE  \/ u.kind = "torn" /\ Take(d, u) = d
         \/ u.kind = "header" /\ ~ d.open /\ Take(d, u) = BeginFrameOf(d, u)
         \/ u.kind = "skippable" /\ ~ d.open /\ Take(d, u) = SkipFrame(d)
         \/ u.kind = "block" /\ d.open /\ Take(d, u) = DecodeBlockOf(d, u)
         \/ u.kind = "end" /\ d.open /\ Take(d, u) = EndOfFrame(d)
         \/ Take(d, u) = [d EXCEPT !.result = "error"]
BY UnitIs, DecoderIs DEF Take, UnitKinds

\* The block a decompressor is about to give out.
Loaded(d, u) == [d EXCEPT !.pending = u.data, !.count = @ + Len(u.data)]

LEMMA BegunFields ==
  ASSUME NEW d \in Decoders, NEW u \in Units
  PROVE  LET e == BeginFrameOf(d, u)
         IN  /\ e \in Decoders /\ e.open /\ e.announced = u.size /\ e.count = 0 /\ e.pending = d.pending
             /\ e.out = d.out /\ e.result = d.result /\ e.room = d.room
<1>u. u.size \in Nat /\ u.data \in Seq(Int) /\ Len(u.data) \in Nat /\ 0 \in Nat /\ d.count + Len(u.data) \in Nat
  BY UnitIs, DecoderIs, LenProperties, SMT
<1> DEFINE e == BeginFrameOf(d, u)
<1>1. e = [d EXCEPT !.open = TRUE, !.announced = u.size, !.count = 0]
  BY DEF BeginFrameOf
<1> HIDE DEF e
<1>2. e \in Decoders
  BY <1>u, <1>1, Zenon DEF Decoders
<1>3. /\ e.open /\ e.announced = u.size /\ e.count = 0 /\ e.pending = d.pending
      /\ e.out = d.out /\ e.result = d.result /\ e.room = d.room
  BY <1>1, SMT DEF Decoders
<1> QED BY <1>2, <1>3 DEF e

LEMMA SkippedFields ==
  ASSUME NEW d \in Decoders
  PROVE  LET e == SkipFrame(d)
         IN  /\ e \in Decoders /\ e.open = d.open /\ e.announced = d.announced /\ e.count = d.count
             /\ e.pending = d.pending /\ e.out = d.out /\ e.result = "end" /\ e.room = d.room
<1> DEFINE e == SkipFrame(d)
<1>1. e = [d EXCEPT !.result = "end"]
  BY DEF SkipFrame
<1> HIDE DEF e
<1>2. e \in Decoders
  BY <1>1, Zenon DEF Decoders
<1>3. /\ e.open = d.open /\ e.announced = d.announced /\ e.count = d.count
      /\ e.pending = d.pending /\ e.out = d.out /\ e.result = "end" /\ e.room = d.room
  BY <1>1, SMT DEF Decoders
<1> QED BY <1>2, <1>3 DEF e

LEMMA EndedFields ==
  ASSUME NEW d \in Decoders
  PROVE  LET e == EndOfFrame(d)
         IN  /\ e \in Decoders /\ ~ e.open /\ e.pending = d.pending /\ e.out = d.out /\ e.room = d.room
             /\ e.result = IF d.announced > 0 /\ d.announced # d.count THEN "error" ELSE "end"
<1> DEFINE e == EndOfFrame(d)
<1> DEFINE r == IF d.announced > 0 /\ d.announced # d.count THEN "error" ELSE "end"
<1>0. e = [d EXCEPT !.open = FALSE, !.result = r]
  BY Zenon DEF EndOfFrame
<1>1. r \in {"more", "end", "error"}
  BY Zenon
<1> HIDE DEF e, r
<1>2. e \in Decoders
  BY <1>0, <1>1, Zenon DEF Decoders
<1>3. ~ e.open /\ e.pending = d.pending /\ e.out = d.out /\ e.room = d.room /\ e.result = r
  BY <1>0, SMT DEF Decoders
<1> QED BY <1>2, <1>3 DEF e, r

LEMMA LoadedFields ==
  ASSUME NEW d \in Decoders, NEW u \in Units
  PROVE  LET e == Loaded(d, u)
         IN  /\ e \in Decoders /\ e.open = d.open /\ e.announced = d.announced
             /\ e.count = d.count + Len(u.data)
             /\ e.pending = u.data /\ e.out = d.out /\ e.result = d.result /\ e.room = d.room
<1>u. u.size \in Nat /\ u.data \in Seq(Int) /\ Len(u.data) \in Nat /\ 0 \in Nat /\ d.count + Len(u.data) \in Nat
  BY UnitIs, DecoderIs, LenProperties, SMT
<1> DEFINE e == Loaded(d, u)
<1>1. e = [d EXCEPT !.pending = u.data, !.count = d.count + Len(u.data)]
  BY DEF Loaded
<1> HIDE DEF e
<1>2. e \in Decoders
  BY <1>u, <1>1, Zenon DEF Decoders
<1>3. /\ e.open = d.open /\ e.announced = d.announced /\ e.count = d.count + Len(u.data)
      /\ e.pending = u.data /\ e.out = d.out /\ e.result = d.result /\ e.room = d.room
  BY <1>1, SMT DEF Decoders
<1> QED BY <1>2, <1>3 DEF e

LEMMA RefusedFields ==
  ASSUME NEW d \in Decoders
  PROVE  LET e == [d EXCEPT !.result = "error"]
         IN  /\ e \in Decoders /\ e.open = d.open /\ e.announced = d.announced /\ e.count = d.count
             /\ e.pending = d.pending /\ e.out = d.out /\ e.result = "error" /\ e.room = d.room
<1> DEFINE e == [d EXCEPT !.result = "error"]
<1>1. e = [d EXCEPT !.result = "error"]
  OBVIOUS
<1> HIDE DEF e
<1>2. e \in Decoders
  BY <1>1, Zenon DEF Decoders
<1>3. /\ e.open = d.open /\ e.announced = d.announced /\ e.count = d.count /\ e.pending = d.pending
      /\ e.out = d.out /\ e.result = "error" /\ e.room = d.room
  BY <1>1, SMT DEF Decoders
<1> QED BY <1>2, <1>3 DEF e

\* A decompressor with all the room there is has nothing waiting.
Limitless(w) == w \in Decoders /\ w.room = -1 /\ w.pending = << >>

\* Of what it takes only a block of a frame adds to the content.
LEMMA TakeLimitless ==
  ASSUME NEW w, Limitless(w), NEW u \in Units
  PROVE  /\ Limitless(Take(w, u))
         /\ u.kind = "block" /\ w.open =>
              LET e == Take(w, u)
              IN  /\ e.out = w.out \o u.data /\ e.open /\ e.announced = w.announced
                  /\ e.count = w.count + Len(u.data) /\ e.result = w.result
         /\ ~ (u.kind = "block" /\ w.open) => Take(w, u).out = w.out
<1> DEFINE e == Take(w, u)
<1> DEFINE l == Loaded(w, u)
<1>1. w \in Decoders /\ w.room = -1 /\ w.pending = << >> /\ -1 < 0
  BY SMT DEF Limitless
<1>2. /\ l \in Decoders /\ l.open = w.open /\ l.announced = w.announced
      /\ l.count = w.count + Len(u.data)
      /\ l.pending = u.data /\ l.out = w.out /\ l.result = w.result /\ l.room = w.room
  BY <1>1, LoadedFields
<1>3. DecodeBlockOf(w, u) = Drained(l)
  BY DEF DecodeBlockOf, Loaded
<1>4. CASE u.kind = "block" /\ w.open
  <2>1. e = Drained(l)
    BY <1>3, <1>4 DEF Take
  <2>2. u.data \in Seq(Int) /\ SubSeq(u.data, 1, Len(u.data)) = u.data
    <3>1. u.data \in Seq(Int)
      BY UnitIs
    <3> QED BY <3>1, SMT
  <2>3. /\ Drained(l) \in Decoders /\ Drained(l).pending = << >> /\ Drained(l).room = l.room
        /\ Drained(l).out = l.out \o SubSeq(l.pending, 1, Len(l.pending))
        /\ Drained(l).open = l.open /\ Drained(l).announced = l.announced
        /\ Drained(l).count = l.count /\ Drained(l).result = l.result
    <3>1. l.room < 0
      BY <1>1, <1>2
    <3> HIDE DEF l
    <3>2. Given(l) = Len(l.pending)
      BY <1>2, <3>1, DrainedIs
    <3> QED BY <1>2, <3>1, <3>2, DrainedIs
  <2> HIDE DEF l, e
  <2>4. e.out = w.out \o u.data
    BY <1>2, <2>1, <2>2, <2>3
  <2> QED BY <1>1, <1>2, <1>4, <2>1, <2>3, <2>4 DEF Limitless, e
<1>5. CASE ~ (u.kind = "block" /\ w.open)
  <2>1. \/ e = w
        \/ e = BeginFrameOf(w, u)
        \/ e = SkipFrame(w)
        \/ e = EndOfFrame(w)
        \/ e = [w EXCEPT !.result = "error"]
    BY <1>1, <1>5, TakeIs
  <2> HIDE DEF e
  <2>2. CASE e = w
    BY <1>1, <1>5, <2>2 DEF Limitless, e
  <2>3. CASE e = BeginFrameOf(w, u)
    <3>1. e \in Decoders /\ e.room = w.room /\ e.pending = w.pending /\ e.out = w.out
      BY <1>1, <2>3, BegunFields, Zenon
    <3> QED BY <1>1, <1>5, <3>1 DEF Limitless, e
  <2>4. CASE e = SkipFrame(w)
    <3>1. e \in Decoders /\ e.room = w.room /\ e.pending = w.pending /\ e.out = w.out
      BY <1>1, <2>4, SkippedFields, Zenon
    <3> QED BY <1>1, <1>5, <3>1 DEF Limitless, e
  <2>5. CASE e = EndOfFrame(w)
    <3>1. e \in Decoders /\ e.room = w.room /\ e.pending = w.pending /\ e.out = w.out
      BY <1>1, <2>5, EndedFields, Zenon
    <3> QED BY <1>1, <1>5, <3>1 DEF Limitless, e
  <2>6. CASE e = [w EXCEPT !.result = "error"]
    <3>1. e \in Decoders /\ e.room = w.room /\ e.pending = w.pending /\ e.out = w.out
      BY <1>1, <2>6, RefusedFields, Zenon
    <3> QED BY <1>1, <1>5, <3>1 DEF Limitless, e
  <2> QED BY <2>1, <2>2, <2>3, <2>4, <2>5, <2>6
<1> QED BY <1>4, <1>5

\* What it stands on the next unit from: itself, or afresh behind a frame.
Ready(w) == IF w.result = "end" THEN [Fresh EXCEPT !.room = -1, !.out = w.out] ELSE w

LEMMA ReadyIs ==
  ASSUME NEW w, Limitless(w)
  PROVE  /\ Limitless(Ready(w)) /\ Ready(w).out = w.out
         /\ w.result = "end" => ~ Ready(w).open /\ Ready(w).result = "more"
         /\ w.result # "end" => Ready(w) = w
         /\ \A u : Onward(w, u) = IF w.result = "error" THEN w ELSE Take(Ready(w), u)
<1> DEFINE r == [Fresh EXCEPT !.room = -1, !.out = w.out]
<1>1. w \in Decoders /\ w.out \in Seq(Int)
  BY DecoderIs DEF Limitless
<1>3. r \in Decoders /\ ~ r.open /\ r.pending = << >> /\ r.room = -1 /\ r.out = w.out /\ r.result = "more"
  BY <1>1, RoomyFreshIs
<1>4. \A u : Onward(w, u) = IF w.result = "error" THEN w ELSE Take(Ready(w), u)
  BY DEF Onward, Ready
<1> HIDE DEF r
<1>5. Ready(w) = IF w.result = "end" THEN r ELSE w
  BY DEF Ready, r
<1> QED BY <1>3, <1>4, <1>5 DEF Limitless

LEMMA OnwardLimitless ==
  ASSUME NEW w, Limitless(w), NEW u \in Units
  PROVE  /\ Limitless(Onward(w, u))
         /\ w.result = "error" => Onward(w, u) = w
         /\ ~ (u.kind = "block" /\ w.open /\ w.result = "more") => Onward(w, u).out = w.out
<1>1. Limitless(Ready(w)) /\ Ready(w).out = w.out
  BY ReadyIs
<1>2. Onward(w, u) = IF w.result = "error" THEN w ELSE Take(Ready(w), u)
  BY ReadyIs, Zenon
<1>3. Limitless(Take(Ready(w), u))
  BY <1>1, TakeLimitless
<1>4. ASSUME ~ (u.kind = "block" /\ w.open /\ w.result = "more"), w.result # "error"
      PROVE  Take(Ready(w), u).out = w.out
  <2>1. w.result \in {"more", "end"}
    BY <1>4, DecoderIs DEF Limitless
  <2>2. ~ (u.kind = "block" /\ Ready(w).open)
    BY <1>4, <2>1, ReadyIs
  <2> QED BY <1>1, <2>2, TakeLimitless
<1> QED BY <1>2, <1>3, <1>4

LEMMA WholeToLimitless ==
  ASSUME NEW units \in Seq(Units), NEW k \in 0 .. Len(units)
  PROVE  Limitless(WholeTo(units, k))
<1> DEFINE Good == {n \in Nat : n <= Len(units) => Limitless(WholeTo(units, n))}
<1>0. Len(units) \in Nat
  BY LenProperties
<1>1. 0 \in Good
  <2>3. Limitless(WholeTo(units, 0))
    BY RoomyStartIs, WholeToStart DEF Limitless
  <2> QED BY <2>3, SMT
<1>2. ASSUME NEW n \in Good \cap Nat PROVE n + 1 \in Good
  <2>1. SUFFICES ASSUME n + 1 <= Len(units) PROVE Limitless(WholeTo(units, n + 1))
    BY SMT
  <2>2. n \in Nat /\ n <= Len(units) /\ n + 1 \in 1 .. Len(units)
    BY <1>0, <2>1, SMT
  <2>3. units[n + 1] \in Units
    BY <2>2, ElementOfSeq
  <2>4. Limitless(WholeTo(units, n))
    BY <2>2
  <2> QED BY <2>2, <2>3, <2>4, WholeToNext, OnwardLimitless
<1>3. Nat \subseteq Good
  <2> HIDE DEF Good
  <2> QED BY <1>1, <1>2, SetInduction
<1>4. k \in Nat /\ k <= Len(units)
  BY <1>0, SMT
<1> QED BY <1>3, <1>4

\* Nothing comes behind what cannot be read.
LEMMA ErrorStays ==
  ASSUME NEW units \in Seq(Units), NEW k \in 0 .. Len(units), NEW m \in k .. Len(units),
         WholeTo(units, k).result = "error"
  PROVE  WholeTo(units, m) = WholeTo(units, k)
<1> DEFINE Good == {n \in Nat : k + n <= Len(units) => WholeTo(units, k + n) = WholeTo(units, k)}
<1>0. Len(units) \in Nat /\ k \in Nat /\ m \in Nat /\ k + 0 = k /\ k <= m /\ m <= Len(units)
  BY LenProperties, SMT
<1>1. 0 \in Good
  BY <1>0
<1>2. ASSUME NEW n \in Good \cap Nat PROVE n + 1 \in Good
  <2>1. SUFFICES ASSUME k + (n + 1) <= Len(units) PROVE WholeTo(units, k + (n + 1)) = WholeTo(units, k)
    BY SMT
  <2>2. /\ k + n \in Nat /\ k + n <= Len(units) /\ (k + n) + 1 = k + (n + 1)
        /\ (k + n) + 1 \in 1 .. Len(units) /\ k + n \in 0 .. Len(units)
    BY <1>0, <2>1, SMT
  <2>3. units[(k + n) + 1] \in Units
    BY <2>2, ElementOfSeq
  <2>4. WholeTo(units, k + n) = WholeTo(units, k)
    BY <2>2
  <2>5. Limitless(WholeTo(units, k + n))
    BY <2>2, WholeToLimitless
  <2>6. WholeTo(units, (k + n) + 1) = Onward(WholeTo(units, k + n), units[(k + n) + 1])
    BY <2>2, WholeToNext
  <2>7. Onward(WholeTo(units, k + n), units[(k + n) + 1]) = WholeTo(units, k + n)
    BY <2>3, <2>4, <2>5, OnwardLimitless
  <2> QED BY <2>2, <2>4, <2>6, <2>7
<1>3. Nat \subseteq Good
  <2> HIDE DEF Good
  <2> QED BY <1>1, <1>2, SetInduction
<1>4. m - k \in Nat /\ k + (m - k) = m
  BY <1>0, SMT
<1>5. m - k \in Good
  BY <1>3, <1>4
<1> QED BY <1>0, <1>4, <1>5

\* One sequence behind another.
LEMMA Appended ==
  ASSUME NEW S, NEW s \in Seq(S), NEW t \in Seq(S)
  PROVE  /\ s \o t \in Seq(S) /\ Len(s \o t) = Len(s) + Len(t)
         /\ \A i \in 1 .. Len(s) : (s \o t)[i] = s[i]
         /\ \A i \in 1 .. Len(t) : (s \o t)[Len(s) + i] = t[i]
<1>1. Len(s) \in Nat /\ Len(t) \in Nat
  BY LenProperties
<1> QED BY <1>1, SMT

\* The same unit moves a decompressor with little room and one with all the room
\* there is to the same place.
LEMMA TakeAgrees ==
  ASSUME NEW d \in Decoders, NEW w, Limitless(w), NEW u \in Units, NEW pos \in Nat,
         d.result = "more", d.pending = << >>, w.result = "more",
         Agrees(d, w), Follows(w, pos, d.out, << >>)
  PROVE  LET e == Take(d, u)
             v == Take(w, u)
         IN  e \in Decoders /\ Agrees(e, v) /\ e.result = v.result /\ Follows(v, pos, e.out, e.pending)
<1> DEFINE e == Take(d, u)
<1> DEFINE v == Take(w, u)
<1>1. w \in Decoders /\ w.pending = << >> /\ w.room = -1
  BY DEF Limitless
<1>2. d.open = w.open /\ (d.open => d.announced = w.announced /\ d.count = w.count)
  BY DEF Agrees
<1>3. Limitless(v)
  BY TakeLimitless
<1>4. v \in Decoders
  BY <1>3 DEF Limitless
<1>5. CASE u.kind = "torn"
  <2>1. e = d /\ v = w
    BY <1>5 DEF Take
  <2> HIDE DEF e, v
  <2> QED BY <2>1 DEF e, v
<1>6. CASE u.kind = "header" /\ ~ d.open
  <2>1. e = BeginFrameOf(d, u) /\ v = BeginFrameOf(w, u)
    BY <1>2, <1>6 DEF Take
  <2> HIDE DEF e, v
  <2>2. /\ e \in Decoders /\ e.open /\ e.announced = u.size /\ e.count = 0 /\ e.pending = d.pending
        /\ e.out = d.out /\ e.result = d.result
    BY <2>1, BegunFields, Zenon
  <2>3. v.open /\ v.announced = u.size /\ v.count = 0 /\ v.out = w.out /\ v.result = w.result
    BY <1>1, <2>1, BegunFields, Zenon
  <2>4. Follows(v, pos, e.out, e.pending)
    BY <2>2, <2>3 DEF Follows
  <2>5. Agrees(e, v)
    BY <2>2, <2>3 DEF Agrees
  <2> QED BY <2>2, <2>3, <2>4, <2>5 DEF e, v
<1>7. CASE u.kind = "skippable" /\ ~ d.open
  <2>1. e = SkipFrame(d) /\ v = SkipFrame(w)
    BY <1>2, <1>7 DEF Take
  <2> HIDE DEF e, v
  <2>2. e \in Decoders /\ e.open = d.open /\ e.pending = d.pending /\ e.out = d.out /\ e.result = "end"
    BY <2>1, SkippedFields, Zenon
  <2>3. v.open = w.open /\ v.out = w.out /\ v.result = "end"
    BY <1>1, <2>1, SkippedFields, Zenon
  <2>4. Follows(v, pos, e.out, e.pending)
    BY <2>2, <2>3 DEF Follows
  <2>5. Agrees(e, v)
    BY <1>2, <1>7, <2>2, <2>3 DEF Agrees
  <2> QED BY <2>2, <2>3, <2>4, <2>5 DEF e, v
<1>8. CASE u.kind = "end" /\ d.open
  <2>1. e = EndOfFrame(d) /\ v = EndOfFrame(w)
    BY <1>2, <1>8 DEF Take
  <2> HIDE DEF e, v
  <2>2. /\ e \in Decoders /\ ~ e.open /\ e.pending = d.pending /\ e.out = d.out
        /\ e.result = IF d.announced > 0 /\ d.announced # d.count THEN "error" ELSE "end"
    BY <2>1, EndedFields, Zenon
  <2>3. /\ ~ v.open /\ v.out = w.out
        /\ v.result = IF w.announced > 0 /\ w.announced # w.count THEN "error" ELSE "end"
    BY <1>1, <2>1, EndedFields, Zenon
  <2>4. Follows(v, pos, e.out, e.pending)
    BY <2>2, <2>3 DEF Follows
  <2>5. e.open = v.open
    BY <1>4, <2>2, <2>3, DecoderIs, Zenon
  <2>6. Agrees(e, v)
    BY <2>2, <2>5 DEF Agrees
  <2> QED BY <1>2, <1>8, <2>2, <2>3, <2>4, <2>6 DEF e, v
<1>9. CASE u.kind = "block" /\ d.open
  <2> DEFINE l == Loaded(d, u)
  <2>1. e = Drained(l)
    BY <1>9 DEF Take, DecodeBlockOf, Loaded
  <2>2. /\ l \in Decoders /\ l.open = d.open /\ l.announced = d.announced
        /\ l.count = d.count + Len(u.data)
        /\ l.pending = u.data /\ l.out = d.out /\ l.result = d.result
    BY LoadedFields, Zenon
  <2>3. /\ v.out = w.out \o u.data /\ v.open /\ v.announced = w.announced
        /\ v.count = w.count + Len(u.data) /\ v.result = w.result
    BY <1>2, <1>9, TakeLimitless, Zenon
  <2> HIDE DEF e, v, l
  <2>4. Follows(v, pos, l.out, l.pending)
    <3> DEFINE A == Len(d.out)
    <3> DEFINE B == Len(u.data)
    <3>1. w.out \in Seq(Int) /\ u.data \in Seq(Int) /\ d.out \in Seq(Int)
      BY <1>1, DecoderIs, UnitIs
    <3>2. A \in Nat /\ B \in Nat /\ Len(w.out) \in Nat /\ Len(<< >>) = 0
      BY <3>1, LenProperties, SMT
    <3>3. Len(w.out) = (pos + A) + Len(<< >>) /\ \A i \in 1 .. A : d.out[i] = w.out[pos + i]
      BY DEF Follows
    <3>4. /\ Len(v.out) = Len(w.out) + B
          /\ \A i \in 1 .. Len(w.out) : v.out[i] = w.out[i]
          /\ \A i \in 1 .. B : v.out[Len(w.out) + i] = u.data[i]
      <4>1. v.out = w.out \o u.data
        BY <2>3
      <4>2. /\ Len(w.out \o u.data) = Len(w.out) + Len(u.data)
            /\ \A i \in 1 .. Len(w.out) : (w.out \o u.data)[i] = w.out[i]
            /\ \A i \in 1 .. Len(u.data) : (w.out \o u.data)[Len(w.out) + i] = u.data[i]
        <5>1. \A s, t \in Seq(Int) :
                /\ Len(s \o t) = Len(s) + Len(t)
                /\ \A i \in 1 .. Len(s) : (s \o t)[i] = s[i]
                /\ \A i \in 1 .. Len(t) : (s \o t)[Len(s) + i] = t[i]
          BY Appended, SMT
        <5> QED BY <3>1, <5>1, Zenon
      <4> QED BY <4>1, <4>2
    <3> HIDE DEF A, B
    <3>5. Len(w.out) = pos + A
      BY <3>2, <3>3, SMT
    <3>6. ASSUME NEW i \in 1 .. A PROVE d.out[i] = v.out[pos + i]
      <4>1. pos + i \in 1 .. Len(w.out)
        BY <3>2, <3>5, SMT
      <4> QED BY <3>3, <3>4, <4>1
    <3>7. ASSUME NEW i \in 1 .. B PROVE u.data[i] = v.out[(pos + A) + i]
      BY <3>4, <3>5
    <3>8. Len(v.out) = (pos + A) + B
      BY <3>4, <3>5
    <3> QED BY <2>2, <3>6, <3>7, <3>8 DEF Follows, A, B
  <2>5. Follows(v, pos, e.out, e.pending)
    BY <1>4, <2>1, <2>2, <2>4, DrainedFollows, Zenon DEF v
  <2>6. /\ e \in Decoders /\ e.open = l.open /\ e.announced = l.announced /\ e.count = l.count
        /\ e.result = l.result
    BY <2>1, <2>2, DrainedIs
  <2>7. Agrees(e, v)
    BY <1>2, <1>9, <1>4, <2>2, <2>3, <2>6 DEF Agrees
  <2> QED BY <2>2, <2>3, <2>5, <2>6, <2>7 DEF e, v
<1>10. CASE ~ \/ u.kind = "torn"
              \/ u.kind \in {"header", "skippable"} /\ ~ d.open
              \/ u.kind \in {"end", "block"} /\ d.open
  <2>1. e = [d EXCEPT !.result = "error"] /\ v = [w EXCEPT !.result = "error"]
    BY <1>2, <1>10 DEF Take
  <2> HIDE DEF e, v
  <2>2. /\ e \in Decoders /\ e.open = d.open /\ e.announced = d.announced /\ e.count = d.count
        /\ e.pending = d.pending /\ e.out = d.out /\ e.result = "error"
    BY <2>1, RefusedFields, Zenon
  <2>3. /\ v.open = w.open /\ v.announced = w.announced /\ v.count = w.count /\ v.out = w.out
        /\ v.result = "error"
    BY <1>1, <2>1, RefusedFields, Zenon
  <2>4. Follows(v, pos, e.out, e.pending)
    BY <2>2, <2>3 DEF Follows
  <2>5. Agrees(e, v)
    BY <1>2, <2>2, <2>3 DEF Agrees
  <2> QED BY <2>2, <2>3, <2>4, <2>5 DEF e, v
<1> QED BY <1>5, <1>6, <1>7, <1>8, <1>9, <1>10, Zenon

-----------------------------------------------------------------------------
(* A reader, step by step.                                                 *)

LEMMA ReaderIs ==
  ASSUME NEW r \in Readers
  PROVE  /\ r.raw \in Nat \ {0} /\ r.input \in Seq(Units) /\ r.busy \in BOOLEAN /\ r.dec \in Decoders
         /\ r.unconsumed \in Seq(Units) /\ r.unused \in Seq(Units) /\ r.eof \in BOOLEAN
         /\ r.needs_input \in BOOLEAN /\ r.at \in Nat /\ r.pos \in Nat /\ r.end \in BOOLEAN
         /\ r.want \in Nat /\ r.skip \in Nat /\ r.data \in Seq(Int) /\ r.raised \in BOOLEAN
         /\ InHand(r) \in Seq(Units)
BY DEF Readers, InHand

\* Where it is does not depend on what was asked of it.
LEMMA SameIn ==
  ASSUME NEW r, NEW q, NEW units, In(r, units),
         q.busy = r.busy, q.input = r.input, q.dec = r.dec, q.unconsumed = r.unconsumed,
         q.unused = r.unused, q.eof = r.eof, q.needs_input = r.needs_input, q.at = r.at, q.pos = r.pos
  PROVE  In(q, units)
<1>1. InHand(q) = InHand(r) /\ Past(q) = Past(r)
  BY DEF InHand, Past
<1> QED BY <1>1, Zenon DEF In, InCall, BetweenCalls

LEMMA NoPositions ==
  ASSUME NEW from
  PROVE  Positions(from, 0) = << >>
BY SMT DEF Positions

LEMMA NewReaderFits ==
  ASSUME NEW units \in Seq(Units), NEW raw \in Nat \ {0}
  PROVE  /\ ReaderIn(NewReader(raw), units) /\ Honest(NewReader(raw), units)
         /\ DataIsTrue(NewReader(raw))
<1> DEFINE r == NewReader(raw)
<1> DEFINE w == WholeTo(units, 0)
<1>1. << >> \in Seq(Units) /\ << >> \in Seq(Int) /\ Len(<< >>) = 0
  BY EmptySeq, SMT
<1>2. Len(units) \in Nat
  BY LenProperties
<1>3. /\ r.raw = raw /\ r.input = << >> /\ r.busy = FALSE /\ r.dec = Fresh /\ r.unconsumed = << >>
      /\ r.unused = << >> /\ r.eof = FALSE /\ r.needs_input = TRUE /\ r.at = 0 /\ r.pos = 0
      /\ r.end = FALSE /\ r.want = 0 /\ r.skip = 0 /\ r.data = << >> /\ r.raised = FALSE
  BY DEF NewReader
<1>4. r \in Readers
  <2>1. Fresh \in Decoders /\ 0 \in Nat
    BY FreshIs
  <2> QED BY <1>1, <2>1, Zenon DEF Readers, NewReader
<1>5. w = [Fresh EXCEPT !.room = -1, !.result = "end"]
  BY WholeToStart
<1>6. ~ w.open /\ w.out = << >> /\ w.result = "end"
  BY <1>5, RoomyStartIs
<1> HIDE DEF r, w
<1>7. InHand(r) = << >> /\ Past(r) = 0
  <2>1. InHand(r) = << >>
    BY <1>3, Zenon DEF InHand
  <2>2. Past(r) = 0 - 0
    BY <1>1, <1>3, <2>1, Zenon DEF Past
  <2> QED BY <2>1, <2>2, SMT
<1>8. Unbegun(r.dec) /\ r.dec.result = "more" /\ r.dec.pending = << >>
  BY <1>3, FreshIs DEF Unbegun
<1>9. Follows(w, r.pos, << >>, r.dec.pending)
  BY <1>1, <1>3, <1>6, <1>8, SMT DEF Follows
<1>10. BetweenCalls(r, w)
  BY <1>3, <1>6, <1>7, <1>8, <1>9 DEF BetweenCalls
<1>11. In(r, units)
  BY <1>1, <1>2, <1>3, <1>6, <1>7, <1>8, <1>10, SMT DEF In, w
<1>12. ReaderIn(r, units)
  BY <1>3, <1>4, <1>11 DEF ReaderIn
<1>13. Honest(r, units)
  BY <1>3 DEF Honest
<1>14. DataIsTrue(r)
  BY <1>1, <1>3, NoPositions DEF DataIsTrue
<1> QED BY <1>12, <1>13, <1>14 DEF r

\* A call of read, or of a seek that reads: nothing of the file is read yet.
LEMMA Asked ==
  ASSUME NEW units, NEW r, ReaderIn(r, units), Honest(r, units),
         ~ r.raised, ~ r.end, r.want = 0, NEW n \in Nat \ {0},
         NEW q, q = [r EXCEPT !.want = n, !.data = << >>]
  PROVE  ReaderIn(q, units) /\ Honest(q, units) /\ DataIsTrue(q)
<1>1. r \in Readers /\ In(r, units)
  BY DEF ReaderIn
<1>2. << >> \in Seq(Int) /\ n \in Nat /\ n > 0 /\ Len(<< >>) = 0
  BY EmptySeq, SMT
<1>3. q \in Readers
  BY <1>1, <1>2, Zenon DEF Readers
<1>4. /\ q.busy = r.busy /\ q.input = r.input /\ q.dec = r.dec /\ q.unconsumed = r.unconsumed
      /\ q.unused = r.unused /\ q.eof = r.eof /\ q.needs_input = r.needs_input /\ q.at = r.at
      /\ q.pos = r.pos /\ q.want = n /\ q.data = << >> /\ q.raised = r.raised /\ q.end = r.end
  BY <1>1, SMT DEF Readers
<1>5. In(q, units)
  BY <1>1, <1>4, SameIn, ZenonT(60)
<1>6. ReaderIn(q, units) /\ Honest(q, units)
  BY <1>2, <1>3, <1>4, <1>5 DEF ReaderIn, Honest
<1>7. DataIsTrue(q)
  BY <1>2, <1>4, NoPositions DEF DataIsTrue
<1> QED BY <1>6, <1>7

\* A seek notes where it is going.
LEMMA Sought ==
  ASSUME NEW units, NEW r, ReaderIn(r, units), Honest(r, units), NEW offset \in Nat,
         NEW q, q = [r EXCEPT !.skip = offset, !.data = << >>]
  PROVE  ReaderIn(q, units) /\ Honest(q, units) /\ DataIsTrue(q)
<1>1. r \in Readers /\ (~ r.raised => In(r, units))
  BY DEF ReaderIn
<1>2. << >> \in Seq(Int) /\ Len(<< >>) = 0
  BY EmptySeq, SMT
<1>3. q \in Readers
  BY <1>1, <1>2, Zenon DEF Readers
<1>4. /\ q.busy = r.busy /\ q.input = r.input /\ q.dec = r.dec /\ q.unconsumed = r.unconsumed
      /\ q.unused = r.unused /\ q.eof = r.eof /\ q.needs_input = r.needs_input /\ q.at = r.at
      /\ q.pos = r.pos /\ q.want = r.want /\ q.data = << >> /\ q.raised = r.raised /\ q.end = r.end
  BY <1>1, SMT DEF Readers
<1>5. ~ q.raised => In(q, units)
  BY <1>1, <1>4, SameIn
<1>6. ReaderIn(q, units) /\ Honest(q, units)
  BY <1>3, <1>4, <1>5 DEF ReaderIn, Honest
<1>7. DataIsTrue(q)
  BY <1>2, <1>4, NoPositions DEF DataIsTrue
<1> QED BY <1>6, <1>7

\* A call first returns what waits, of the same content.
LEMMA CalledIs ==
  ASSUME NEW d \in Decoders, NEW room \in Int, NEW w \in Decoders, NEW pos \in Nat,
         Follows(w, pos, << >>, d.pending)
  PROVE  LET c == Called(d, room)
         IN  /\ c \in Decoders /\ c.open = d.open /\ c.announced = d.announced /\ c.count = d.count
             /\ c.result = "more" /\ Follows(w, pos, c.out, c.pending)
             /\ (d.pending = << >> => c.out = << >> /\ c.pending = << >>)
<1> DEFINE e == [d EXCEPT !.room = room, !.out = << >>, !.result = "more"]
<1> DEFINE c == Called(d, room)
<1>1. << >> \in Seq(Int)
  BY EmptySeq
<1>2. e \in Decoders
  BY <1>1, Zenon DEF Decoders
<1>3. /\ e.open = d.open /\ e.announced = d.announced /\ e.count = d.count /\ e.pending = d.pending
      /\ e.out = << >> /\ e.result = "more"
  BY SMT DEF Decoders
<1>4. c = Drained(e)
  BY DEF Called
<1> HIDE DEF e, c
<1>5. /\ c \in Decoders /\ c.open = e.open /\ c.announced = e.announced /\ c.count = e.count
      /\ c.result = e.result
      /\ Given(e) \in 0 .. Len(e.pending)
      /\ c.out = e.out \o SubSeq(e.pending, 1, Given(e))
      /\ c.pending = SubSeq(e.pending, Given(e) + 1, Len(e.pending))
  BY <1>2, <1>4, DrainedIs
<1>6. Follows(w, pos, c.out, c.pending)
  BY <1>2, <1>3, <1>4, DrainedFollows
<1>7. ASSUME d.pending = << >> PROVE c.out = << >> /\ c.pending = << >>
  <2>1. e.pending = << >> /\ e.out = << >> /\ Len(<< >>) = 0
    BY <1>3, <1>7, SMT
  <2>2. Given(e) = 0
    BY <1>5, <2>1, SMT
  <2> QED BY <1>5, <2>1, <2>2, SMT
<1> QED BY <1>3, <1>5, <1>6, <1>7 DEF c

\* What is read of the file goes behind what was in hand.
LEMMA ReadOn ==
  ASSUME NEW units \in Seq(Units), NEW h \in Seq(Units), NEW at \in Nat, NEW n \in Nat,
         Len(h) <= at, at + n <= Len(units),
         \A i \in 1 .. Len(h) : h[i] = units[(at - Len(h)) + i]
  PROVE  LET o == h \o SubSeq(Without(units, at), 1, n)
         IN  /\ o \in Seq(Units) /\ Len(o) = Len(h) + n
             /\ \A i \in 1 .. Len(o) : o[i] = units[(at - Len(h)) + i]
<1> DEFINE A == Len(h)
<1> DEFINE L == Len(units)
<1> DEFINE s == SubSeq(Without(units, at), 1, n)
<1> DEFINE t == Without(units, at)
<1>1. A \in Nat /\ L \in Nat /\ A <= at /\ at + n <= L /\ at + 1 \in 1 .. L + 1
  BY LenProperties, SMT
<1>2. t \in Seq(Units) /\ Len(t) = L - at /\ \A i \in 1 .. L - at : t[i] = units[at + i]
  BY <1>1, SMT DEF Without
<1>3. s \in Seq(Units) /\ Len(s) = n /\ \A i \in 1 .. n : s[i] = t[i]
  <2> HIDE DEF t, L
  <2>1. Without(units, at) = t
    BY DEF t
  <2>2. n <= Len(t)
    BY <1>1, <1>2, SMT
  <2> QED BY <1>1, <1>2, <2>1, <2>2, SMT
<1> HIDE DEF s, t
<1>4. /\ h \o s \in Seq(Units) /\ Len(h \o s) = A + n
      /\ \A i \in 1 .. A : (h \o s)[i] = h[i]
      /\ \A i \in 1 .. n : (h \o s)[A + i] = s[i]
  BY <1>3, Appended
<1>5. \A i \in 1 .. A : h[i] = units[(at - A) + i]
  OBVIOUS
<1> HIDE DEF A, L
<1>6. ASSUME NEW i \in 1 .. A + n PROVE (h \o s)[i] = units[(at - A) + i]
  <2>1. CASE i <= A
    <3>1. i \in 1 .. A
      BY <1>1, <2>1, SMT
    <3> QED BY <1>4, <1>5, <3>1
  <2>2. CASE i > A
    <3>1. i - A \in 1 .. n /\ i - A \in 1 .. L - at /\ A + (i - A) = i /\ at + (i - A) = (at - A) + i
      BY <1>1, <2>2, SMT
    <3>2. (h \o s)[A + (i - A)] = s[i - A] /\ s[i - A] = t[i - A] /\ t[i - A] = units[at + (i - A)]
      BY <1>2, <1>3, <1>4, <3>1
    <3> QED BY <3>1, <3>2
  <2>3. i <= A \/ i > A
    BY <1>1, SMT
  <2> QED BY <2>1, <2>2, <2>3
<1> QED BY <1>4, <1>6, Zenon DEF s, A

\* decompress is called with what was left and with what the file has next.
LEMMA Decompressing ==
  ASSUME disk \in Seq(Units), ReaderIn(rd, disk), Honest(rd, disk),
         rd.want > 0, ~ rd.busy, NEW n \in Nat, rd.at + n <= Len(disk),
         n # 0 => (IF rd.eof THEN rd.unused = << >> ELSE rd.needs_input),
         rd.needs_input /\ ~ rd.eof => n # 0,
         rd.eof /\ rd.unused = << >> => n # 0,
         rd' \in Readers, rd'.busy = TRUE, rd'.input = InHand(rd) \o SubSeq(Without(disk, rd.at), 1, n),
         rd'.dec = Called(IF rd.eof THEN Fresh ELSE rd.dec, rd.want), rd'.at = rd.at + n,
         rd'.pos = rd.pos, rd'.want = rd.want, rd'.data = rd.data, rd'.raised = rd.raised, rd'.end = rd.end
  PROVE  ReaderIn(rd', disk) /\ Honest(rd', disk) /\ (DataIsTrue(rd) => DataIsTrue(rd'))
<1> DEFINE d == IF rd.eof THEN Fresh ELSE rd.dec
<1> DEFINE c == Called(d, rd.want)
<1> DEFINE w == WholeTo(disk, Past(rd))
<1> DEFINE h == InHand(rd)
<1> DEFINE o == h \o SubSeq(Without(disk, rd.at), 1, n)
<1>1. rd \in Readers /\ ~ rd.end /\ ~ rd.raised /\ In(rd, disk)
  <2>1. rd \in Readers
    BY DEF ReaderIn
  <2>2. rd.want # 0
    BY <2>1, ReaderIs, SMT
  <2> QED BY <2>1, <2>2 DEF ReaderIn
<1>2. /\ rd.dec \in Decoders /\ rd.at \in Nat /\ rd.pos \in Nat /\ rd.want \in Nat /\ rd.eof \in BOOLEAN
      /\ h \in Seq(Units) /\ Len(h) \in Nat /\ Len(disk) \in Nat /\ rd.busy \in BOOLEAN
      /\ rd.needs_input \in BOOLEAN
  BY <1>1, ReaderIs, LenProperties, Zenon
<1>3. /\ rd.at <= Len(disk) /\ Len(h) <= rd.at
      /\ \A i \in 1 .. Len(h) : h[i] = disk[(rd.at - Len(h)) + i]
      /\ \/ w.result = rd.dec.result /\ Agrees(rd.dec, w)
         \/ w.result = "end" /\ Unbegun(rd.dec)
      /\ BetweenCalls(rd, w)
  BY <1>1, Zenon DEF In, Past
<1>4. /\ w.result # rd.dec.result => Past(rd) = 0 /\ ~ rd.eof /\ rd.needs_input
      /\ w.result # "error" /\ rd.eof = (rd.dec.result = "end")
      /\ Follows(w, rd.pos, << >>, rd.dec.pending)
      /\ ~ rd.eof /\ rd.needs_input => rd.unconsumed = << >>
  BY <1>3 DEF BetweenCalls
<1>5. Past(rd) \in 0 .. Len(disk) /\ Past(rd) = rd.at - Len(h)
  BY <1>2, <1>3, SMT DEF Past
<1>6. Limitless(w) /\ w \in Decoders
  BY <1>5, WholeToLimitless DEF Limitless
<1> HIDE DEF w
<1>7. d \in Decoders /\ Follows(w, rd.pos, << >>, d.pending)
  <2>1. CASE rd.eof
    <3>1. w.result = "end" /\ rd.dec.result = "end" /\ Agrees(rd.dec, w)
      BY <1>3, <1>4, <2>1 DEF Unbegun
    <3>2. rd.dec.pending = << >>
      BY <3>1 DEF Agrees
    <3>3. d = Fresh /\ d.pending = << >>
      BY <2>1, FreshIs
    <3> QED BY <1>4, <3>2, <3>3, FreshIs
  <2>2. CASE ~ rd.eof
    BY <1>2, <1>4, <2>2
  <2> QED BY <2>1, <2>2
<1>8. /\ c \in Decoders /\ c.open = d.open /\ c.announced = d.announced /\ c.count = d.count
      /\ c.result = "more" /\ Follows(w, rd.pos, c.out, c.pending)
      /\ (d.pending = << >> => c.out = << >> /\ c.pending = << >>)
  <2>1. rd.want \in Int
    BY <1>2, SMT
  <2> HIDE DEF d
  <2> QED BY <1>2, <1>6, <1>7, <2>1, CalledIs
<1>9. /\ o \in Seq(Units) /\ Len(o) = Len(h) + n
      /\ \A i \in 1 .. Len(o) : o[i] = disk[(rd.at - Len(h)) + i]
  <2> HIDE DEF h
  <2>1. Len(h) <= rd.at /\ rd.at + n <= Len(disk)
    BY <1>3
  <2>2. \A s \in Seq(Units), at \in Nat :
          Len(s) <= at /\ at + n <= Len(disk) /\ (\A i \in 1 .. Len(s) : s[i] = disk[(at - Len(s)) + i]) =>
            LET t == s \o SubSeq(Without(disk, at), 1, n)
            IN  /\ t \in Seq(Units) /\ Len(t) = Len(s) + n
                /\ \A i \in 1 .. Len(t) : t[i] = disk[(at - Len(s)) + i]
    BY ReadOn, ZenonT(60)
  <2> QED BY <1>2, <1>3, <2>1, <2>2, Zenon
<1>20. rd'.input = o /\ rd'.dec = c
  OBVIOUS
<1> HIDE DEF h, o, c, d
<1>10. /\ rd' \in Readers
       /\ rd'.busy = TRUE /\ rd'.input = o /\ rd'.dec = c /\ rd'.at = rd.at + n /\ rd'.pos = rd.pos
       /\ rd'.want = rd.want /\ rd'.data = rd.data /\ rd'.raised = rd.raised /\ rd'.end = rd.end
  BY <1>20
<1>12. InHand(rd') = o /\ Past(rd') = Past(rd)
  <2>1. InHand(rd') = o
    BY <1>10 DEF InHand
  <2>2. Past(rd') = (rd.at + n) - (Len(h) + n)
    BY <1>9, <1>10, <2>1, Zenon DEF Past
  <2> QED BY <1>2, <1>5, <2>1, <2>2, SMT
<1>13. \/ w.result = c.result /\ Agrees(c, w)
       \/ w.result = "end" /\ Unbegun(c)
  <2>1. CASE rd.eof
    <3>1. w.result = "end"
      BY <1>3, <1>4, <2>1 DEF Unbegun
    <3>2. Unbegun(c)
      BY <1>8, <2>1, FreshIs DEF Unbegun, d
    <3> QED BY <3>1, <3>2
  <2>2. CASE ~ rd.eof /\ Unbegun(rd.dec) /\ w.result = "end"
    <3>1. Unbegun(c)
      BY <1>8, <2>2 DEF Unbegun, d
    <3> QED BY <2>2, <3>1
  <2>3. CASE ~ rd.eof /\ w.result = rd.dec.result /\ Agrees(rd.dec, w)
    <3>1. rd.dec.result = "more"
      BY <1>2, <1>4, <2>3, DecoderIs
    <3>2. Agrees(c, w)
      BY <1>8, <2>3, <3>1 DEF Agrees, d
    <3> QED BY <1>8, <2>3, <3>1, <3>2
  <2> QED BY <1>3, <2>1, <2>2, <2>3
<1>14. InCall(rd', w)
  <2>1. ASSUME w.result # c.result PROVE o # << >>
    <3>1. w.result = "end"
      BY <1>13, <2>1
    <3>2. n # 0 \/ Len(h) # 0
      <4>1. CASE rd.eof
        <5>1. h = rd.unused
          BY <1>2, <4>1, Zenon DEF InHand, h
        <5>2. rd.unused \in Seq(Units) /\ (rd.unused # << >> => Len(rd.unused) # 0)
          <6>1. rd.unused \in Seq(Units)
            BY <1>1, ReaderIs
          <6> QED BY <6>1, EmptySeq
        <5> QED BY <4>1, <5>1, <5>2
      <4>2. CASE ~ rd.eof
        BY <1>4, <3>1, <4>2
      <4> QED BY <4>1, <4>2
    <3>3. Len(o) # 0
      BY <1>2, <1>9, <3>2, SMT
    <3>4. Len(<< >>) = 0
      BY SMT
    <3> QED BY <3>3, <3>4
  <2> QED BY <1>8, <1>10, <2>1 DEF InCall
<1>15. In(rd', disk)
  <2>1. rd'.at <= Len(disk) /\ Len(InHand(rd')) <= rd'.at
    <3>1. rd'.at = rd.at + n /\ Len(InHand(rd')) = Len(h) + n
      BY <1>9, <1>10, <1>12
    <3> QED BY <1>2, <1>3, <3>1, SMT
  <2>2. \A i \in 1 .. Len(InHand(rd')) : InHand(rd')[i] = disk[Past(rd') + i]
    BY <1>5, <1>9, <1>12
  <2> QED BY <1>10, <1>12, <1>13, <1>14, <2>1, <2>2, Zenon DEF In, w
<1>16. ReaderIn(rd', disk) /\ Honest(rd', disk)
  BY <1>1, <1>10, <1>15 DEF ReaderIn, Honest
<1>17. DataIsTrue(rd) => DataIsTrue(rd')
  BY <1>10 DEF DataIsTrue
<1> QED BY <1>16, <1>17

\* The loop takes the next unit, as the reader with all the room there is does.
LEMMA NextUnit ==
  ASSUME NEW units \in Seq(Units), NEW r \in Readers, In(r, units),
         r.busy, ~ Stopped(r.dec), r.input # << >>
  PROVE  LET e == Take(r.dec, Head(r.input))
             v == WholeTo(units, Past(r) + 1)
         IN  /\ e \in Decoders /\ Agrees(e, v) /\ e.result = v.result
             /\ Follows(v, r.pos, e.out, e.pending)
             /\ Tail(r.input) \in Seq(Units) /\ Len(Tail(r.input)) = Len(r.input) - 1
             /\ \A i \in 1 .. Len(Tail(r.input)) : Tail(r.input)[i] = r.input[i + 1]
             /\ Past(r) + 1 = r.at - Len(Tail(r.input))
<1> DEFINE w == WholeTo(units, Past(r))
<1> DEFINE u == Head(r.input)
<1> DEFINE t == Tail(r.input)
<1>1. /\ r.dec \in Decoders /\ r.at \in Nat /\ r.pos \in Nat /\ r.input \in Seq(Units)
      /\ Len(r.input) \in Nat /\ Len(units) \in Nat
  BY ReaderIs, LenProperties
<1>2. InHand(r) = r.input
  BY DEF InHand
<1>3. /\ r.at <= Len(units) /\ Len(r.input) <= r.at
      /\ \A i \in 1 .. Len(r.input) : r.input[i] = units[Past(r) + i]
      /\ \/ w.result = r.dec.result /\ Agrees(r.dec, w)
         \/ w.result = "end" /\ Unbegun(r.dec)
      /\ Follows(w, r.pos, r.dec.out, r.dec.pending)
  <2>1. /\ r.at <= Len(units) /\ Len(InHand(r)) <= r.at
        /\ \A i \in 1 .. Len(InHand(r)) : InHand(r)[i] = units[Past(r) + i]
        /\ \/ w.result = r.dec.result /\ Agrees(r.dec, w)
           \/ w.result = "end" /\ Unbegun(r.dec)
        /\ InCall(r, w)
    BY Zenon DEF In
  <2>2. Follows(w, r.pos, r.dec.out, r.dec.pending)
    BY <2>1 DEF InCall
  <2> HIDE DEF w
  <2> QED BY <1>2, <2>1, <2>2
<1>4. Len(r.input) # 0
  BY <1>1, EmptySeq
<1>5. /\ u \in Units /\ u = r.input[1] /\ t \in Seq(Units) /\ Len(t) = Len(r.input) - 1
      /\ \A i \in 1 .. Len(t) : t[i] = r.input[i + 1]
  <2>1. u \in Units /\ u = r.input[1]
    BY <1>1, <1>4, SMT
  <2>2. t \in Seq(Units) /\ Len(t) = Len(r.input) - 1
    BY <1>1, <1>4, SMT
  <2>3. \A i \in 1 .. Len(t) : t[i] = r.input[i + 1]
    BY <1>1, <1>4, SMT
  <2> QED BY <2>1, <2>2, <2>3
<1>6. Past(r) = r.at - Len(r.input)
  BY <1>2 DEF Past
<1>7. Past(r) \in Nat /\ Past(r) \in 0 .. Len(units) /\ 1 \in 1 .. Len(r.input)
  BY <1>1, <1>3, <1>4, <1>6, SMT
<1>8. Limitless(w)
  BY <1>7, WholeToLimitless
<1> HIDE DEF w
<1>9. r.dec.result = "more" /\ r.dec.pending = << >>
  BY DEF Stopped
<1>10. WholeTo(units, Past(r) + 1) = Take(Ready(w), u)
  <2>1. units[Past(r) + 1] = u
    BY <1>3, <1>5, <1>7
  <2>2. WholeTo(units, Past(r) + 1) = Onward(w, u)
    BY <1>7, <2>1, WholeToNext DEF w
  <2>3. w.result # "error"
    BY <1>3, <1>9
  <2> HIDE DEF u
  <2>4. Onward(w, u) = IF w.result = "error" THEN w ELSE Take(Ready(w), u)
    BY <1>8, ReadyIs
  <2> QED BY <2>2, <2>3, <2>4
<1>11. /\ Limitless(Ready(w)) /\ Ready(w).result = "more" /\ Agrees(r.dec, Ready(w))
       /\ Follows(Ready(w), r.pos, r.dec.out, << >>)
  <2>1. Limitless(Ready(w)) /\ Ready(w).out = w.out
    BY <1>8, ReadyIs
  <2>2. Follows(Ready(w), r.pos, r.dec.out, << >>)
    BY <1>3, <1>9, <2>1 DEF Follows
  <2>3. CASE w.result = r.dec.result /\ Agrees(r.dec, w)
    <3>1. Ready(w) = w
      BY <1>8, <1>9, <2>3, ReadyIs
    <3> QED BY <1>9, <2>1, <2>2, <2>3, <3>1
  <2>4. CASE w.result = "end" /\ Unbegun(r.dec)
    <3>1. ~ Ready(w).open /\ Ready(w).result = "more"
      BY <1>8, <2>4, ReadyIs
    <3>2. ~ r.dec.open /\ r.dec.open \in BOOLEAN /\ Ready(w).open \in BOOLEAN
      BY <1>1, <2>1, <2>4, DecoderIs, Zenon DEF Unbegun, Limitless
    <3>3. Agrees(r.dec, Ready(w))
      BY <1>9, <3>1, <3>2 DEF Agrees
    <3> QED BY <2>1, <2>2, <3>1, <3>3
  <2> QED BY <1>3, <2>3, <2>4
<1> DEFINE v == Take(Ready(w), u)
<1> DEFINE e == Take(r.dec, u)
<1>12. e \in Decoders /\ Agrees(e, v) /\ e.result = v.result /\ Follows(v, r.pos, e.out, e.pending)
  <2> HIDE DEF u
  <2> QED BY <1>1, <1>5, <1>9, <1>11, TakeAgrees, ZenonT(60)
<1>13. Past(r) + 1 = r.at - Len(t)
  <2> DEFINE A == Len(r.input)
  <2> DEFINE T == Len(t)
  <2>1. A \in Nat /\ r.at \in Nat /\ T = A - 1 /\ Past(r) = r.at - A
    BY <1>1, <1>5, <1>6
  <2> HIDE DEF A, T
  <2>2. Past(r) + 1 = r.at - T
    BY <2>1, SMT
  <2> QED BY <2>2 DEF T
<1> QED BY <1>5, <1>10, <1>12, <1>13, Zenon

LEMMA Taking ==
  ASSUME NEW units \in Seq(Units), NEW r, ReaderIn(r, units), Honest(r, units),
         r.busy, ~ Stopped(r.dec), r.input # << >>,
         NEW q \in Readers, q.busy = r.busy, q.dec = Take(r.dec, Head(r.input)), q.input = Tail(r.input),
         q.at = r.at, q.pos = r.pos, q.want = r.want, q.data = r.data, q.raised = r.raised, q.end = r.end
  PROVE  ReaderIn(q, units) /\ Honest(q, units) /\ (DataIsTrue(r) => DataIsTrue(q))
<1> DEFINE e == Take(r.dec, Head(r.input))
<1> DEFINE v == WholeTo(units, Past(r) + 1)
<1> DEFINE t == Tail(r.input)
<1>1. r \in Readers /\ In(r, units) /\ r.want > 0 /\ ~ r.raised
  BY DEF ReaderIn
<1>2. /\ e \in Decoders /\ Agrees(e, v) /\ e.result = v.result
      /\ Follows(v, r.pos, e.out, e.pending)
      /\ t \in Seq(Units) /\ Len(t) = Len(r.input) - 1
      /\ \A i \in 1 .. Len(t) : t[i] = r.input[i + 1]
      /\ Past(r) + 1 = r.at - Len(t)
  BY <1>1, NextUnit, Zenon
<1>3. q.dec = e /\ q.input = t
  OBVIOUS
<1> HIDE DEF e, v, t
<1>5. /\ q.busy = r.busy /\ q.input = t /\ q.dec = e /\ q.at = r.at /\ q.pos = r.pos
      /\ q.want = r.want /\ q.data = r.data /\ q.raised = r.raised /\ q.end = r.end
  BY <1>3
<1>6. InHand(q) = t
  BY <1>5 DEF InHand
<1>7. Past(q) = Past(r) + 1
  BY <1>2, <1>5, <1>6 DEF Past
<1>8. /\ r.at <= Len(units) /\ Len(r.input) <= r.at
      /\ \A i \in 1 .. Len(r.input) : r.input[i] = units[Past(r) + i]
  BY <1>1, Zenon DEF In, InHand
<1>9. Len(t) <= q.at /\ Past(r) \in Int
  <2>1. r.at \in Nat /\ r.input \in Seq(Units)
    BY <1>1, ReaderIs
  <2>2. Len(r.input) \in Nat /\ Past(r) = r.at - Len(r.input)
    BY <2>1, LenProperties DEF Past, InHand
  <2> QED BY <1>2, <1>5, <1>8, <2>1, <2>2, SMT
<1>10. \A i \in 1 .. Len(t) : t[i] = units[(Past(r) + 1) + i]
  <2> SUFFICES ASSUME NEW i \in 1 .. Len(t) PROVE t[i] = units[(Past(r) + 1) + i]
    OBVIOUS
  <2>1. r.input \in Seq(Units)
    BY <1>1, ReaderIs
  <2>2. Len(r.input) \in Nat
    BY <2>1, LenProperties
  <2>3. i + 1 \in 1 .. Len(r.input) /\ Past(r) + (i + 1) = (Past(r) + 1) + i
    BY <1>2, <1>9, <2>2, SMT
  <2> QED BY <1>2, <1>8, <2>3
<1>11. In(q, units)
  <2>1. InCall(q, v)
    BY <1>2, <1>5 DEF InCall
  <2> QED BY <1>2, <1>5, <1>6, <1>7, <1>8, <1>9, <1>10, <2>1, Zenon DEF In, v
<1>12. ReaderIn(q, units) /\ Honest(q, units)
  BY <1>1, <1>5, <1>11 DEF ReaderIn, Honest
<1>13. DataIsTrue(r) => DataIsTrue(q)
  BY <1>5 DEF DataIsTrue
<1> QED BY <1>12, <1>13

\* decompress raises: there is an error in the file, wherever it was read to.
LEMMA Raising ==
  ASSUME NEW units \in Seq(Units), NEW r, ReaderIn(r, units), Honest(r, units),
         r.busy, r.dec.result = "error",
         NEW q, q = [r EXCEPT !.busy = FALSE, !.raised = TRUE, !.want = 0]
  PROVE  ReaderIn(q, units) /\ Honest(q, units) /\ (DataIsTrue(r) => DataIsTrue(q))
<1> DEFINE w == WholeTo(units, Past(r))
<1>1. r \in Readers /\ In(r, units) /\ r.want > 0 /\ ~ r.raised /\ ~ r.end
  <2>1. r \in Readers /\ r.want > 0
    BY DEF ReaderIn
  <2>2. r.want # 0
    BY <2>1, ReaderIs, SMT
  <2> QED BY <2>1, <2>2 DEF ReaderIn
<1>2. 0 \in Nat
  BY SMT
<1>3. q \in Readers
  BY <1>1, <1>2, Zenon DEF Readers
<1>4. /\ q.busy = FALSE /\ q.raised = TRUE /\ q.want = 0 /\ q.pos = r.pos /\ q.data = r.data
      /\ q.end = r.end
  BY <1>1, SMT DEF Readers
<1>5. /\ r.at <= Len(units) /\ Len(r.input) <= r.at
      /\ \/ w.result = r.dec.result /\ Agrees(r.dec, w)
         \/ w.result = "end" /\ Unbegun(r.dec)
  BY <1>1, Zenon DEF In, InHand
<1>6. w.result = "error"
  <2> HIDE DEF w
  <2> QED BY <1>5 DEF Unbegun
<1>7. Whole(units).result = "error"
  <2>1. r.at \in Nat /\ r.input \in Seq(Units)
    BY <1>1, ReaderIs
  <2>2. Len(r.input) \in Nat /\ Past(r) = r.at - Len(r.input) /\ Len(units) \in Nat
    BY <2>1, LenProperties DEF Past, InHand
  <2>3. Past(r) \in 0 .. Len(units) /\ Len(units) \in Past(r) .. Len(units)
    BY <1>5, <2>1, <2>2, SMT
  <2> HIDE DEF w
  <2>4. WholeTo(units, Len(units)) = w
    BY <1>6, <2>3, ErrorStays, Zenon DEF w
  <2> QED BY <1>6, <2>4 DEF Whole
<1>8. ReaderIn(q, units)
  BY <1>3, <1>4 DEF ReaderIn
<1>9. Honest(q, units)
  BY <1>1, <1>4, <1>7 DEF Honest
<1>10. DataIsTrue(r) => DataIsTrue(q)
  BY <1>4 DEF DataIsTrue
<1> QED BY <1>8, <1>9, <1>10

\* It returns: what it gave out is the data, what is left is in hand.
LEMMA Returning ==
  ASSUME NEW units \in Seq(Units), NEW r, ReaderIn(r, units), Honest(r, units),
         r.busy, r.dec.result # "error", Stopped(r.dec) \/ r.input = << >>,
         NEW q \in Readers, NEW m \in BOOLEAN, NEW n \in Nat,
         q.busy = FALSE, q.unconsumed = Kept(r.input, r.dec.result = "end"),
         q.unused = IF r.dec.result = "end" THEN r.input ELSE << >>,
         q.eof = (r.dec.result = "end"), q.needs_input = m,
         r.dec.result # "end" => m = (r.input = << >>),
         q.pos = r.pos + Len(r.dec.out), q.data = r.dec.out, q.want = n,
         q.dec = r.dec, q.at = r.at, q.raised = r.raised, q.end = r.end
  PROVE  ReaderIn(q, units) /\ Honest(q, units) /\ (TrueRow(units) => DataIsTrue(q))
<1> DEFINE w == WholeTo(units, Past(r))
<1> DEFINE d == r.dec
<1>1. r \in Readers /\ In(r, units) /\ r.want > 0 /\ ~ r.raised /\ ~ r.end
  <2>1. r \in Readers /\ r.want > 0
    BY DEF ReaderIn
  <2>2. r.want # 0
    BY <2>1, ReaderIs, SMT
  <2> QED BY <2>1, <2>2 DEF ReaderIn
<1>2. d \in Decoders /\ r.at \in Nat /\ r.input \in Seq(Units) /\ r.pos \in Nat
  BY <1>1, ReaderIs
<1>3. Len(r.input) \in Nat /\ Past(r) = r.at - Len(r.input) /\ Len(units) \in Nat
  BY <1>2, LenProperties DEF Past, InHand
<1>4. /\ r.at <= Len(units) /\ Len(r.input) <= r.at
      /\ \A i \in 1 .. Len(r.input) : r.input[i] = units[Past(r) + i]
      /\ \/ w.result = d.result /\ Agrees(d, w)
         \/ w.result = "end" /\ Unbegun(d)
      /\ InCall(r, w)
  BY <1>1, Zenon DEF In, InHand
<1>5. Past(r) \in 0 .. Len(units)
  BY <1>2, <1>3, <1>4, SMT
<1>6. Limitless(w) /\ w \in Decoders /\ w.out \in Seq(Int)
  BY <1>5, WholeToLimitless, DecoderIs DEF Limitless
<1>7. InHand(q) = r.input
  <2>1. CASE d.result = "end"
    BY <2>1 DEF InHand
  <2>2. CASE d.result # "end"
    BY <2>2 DEF InHand, Kept
  <2> QED BY <2>1, <2>2
<1>8. Past(q) = Past(r)
  BY <1>3, <1>7 DEF Past
<1> HIDE DEF w, d
<1>9. w.result = d.result /\ Agrees(d, w)
  <2>1. SUFFICES ASSUME w.result = "end", Unbegun(d) PROVE FALSE
    BY <1>4
  <2>2. r.input # << >>
    BY <1>4, <2>1 DEF InCall, Unbegun, d
  <2> QED BY <2>1, <2>2 DEF Unbegun, Stopped, d
<1>10. Follows(w, r.pos, d.out, d.pending)
  BY <1>4 DEF InCall, d
<1> DEFINE A == Len(d.out)
<1> DEFINE B == Len(d.pending)
<1>11. d.out \in Seq(Int) /\ d.pending \in Seq(Int) /\ A \in Nat /\ B \in Nat /\ Len(w.out) \in Nat
  <2>1. d.out \in Seq(Int) /\ d.pending \in Seq(Int)
    BY <1>2, DecoderIs
  <2> QED BY <1>6, <2>1, LenProperties
<1>12. /\ Len(w.out) = (r.pos + A) + B
       /\ \A i \in 1 .. A : d.out[i] = w.out[r.pos + i]
       /\ \A i \in 1 .. B : d.pending[i] = w.out[(r.pos + A) + i]
  BY <1>10 DEF Follows
<1>13. q.pos = r.pos + A /\ q.dec = d /\ q.data = d.out
  BY DEF d
<1> HIDE DEF A, B
<1>14. Follows(w, q.pos, << >>, d.pending)
  <2>1. Len(<< >>) = 0 /\ q.pos + 0 = r.pos + A /\ Len(d.pending) = B
    BY <1>2, <1>11, <1>13, SMT DEF B
  <2>2. Len(w.out) = (q.pos + Len(<< >>)) + Len(d.pending)
    BY <1>12, <2>1
  <2>3. \A i \in 1 .. Len(<< >>) : << >>[i] = w.out[q.pos + i]
    BY <2>1, SMT
  <2>4. \A i \in 1 .. Len(d.pending) : d.pending[i] = w.out[(q.pos + Len(<< >>)) + i]
    BY <1>12, <2>1
  <2> QED BY <2>2, <2>3, <2>4 DEF Follows
<1>15. BetweenCalls(q, w)
  <2>1. ~ q.eof /\ q.needs_input => q.unconsumed = << >>
    BY DEF Kept
  <2> QED BY <1>9, <1>13, <1>14, <2>1 DEF BetweenCalls, d
<1>16. In(q, units)
  BY <1>4, <1>7, <1>8, <1>9, <1>13, <1>15, ZenonT(60) DEF In, w
<1>17. ReaderIn(q, units) /\ Honest(q, units)
  BY <1>1, <1>16 DEF ReaderIn, Honest
<1>18. ASSUME TrueRow(units) PROVE DataIsTrue(q)
  <2>1. TrueTo(units, Past(r))
    BY <1>5, <1>18 DEF TrueRow
  <2>2. w.out = Positions(0, Len(w.out))
    BY <2>1 DEF TrueTo, w
  <2>3. \A i \in 1 .. Len(w.out) : w.out[i] = 0 + i - 1
    BY <2>2, Zenon DEF Positions
  <2>4. \A i \in 1 .. A : d.out[i] = r.pos + i - 1
    <3> SUFFICES ASSUME NEW i \in 1 .. A PROVE d.out[i] = r.pos + i - 1
      OBVIOUS
    <3>1. r.pos + i \in 1 .. Len(w.out)
      <4> DEFINE L == Len(w.out)
      <4>1. L = (r.pos + A) + B /\ L \in Nat
        BY <1>11, <1>12
      <4> HIDE DEF L
      <4>2. r.pos + i \in 1 .. L
        BY <1>2, <1>11, <4>1, SMTT(60)
      <4> QED BY <4>2 DEF L
    <3>2. d.out[i] = 0 + (r.pos + i) - 1
      BY <1>12, <2>3, <3>1
    <3> QED BY <1>2, <1>11, <3>2, SMT
  <2>5. d.out = [i \in 1 .. A |-> r.pos + i - 1]
    <3>1. d.out = [i \in 1 .. A |-> d.out[i]]
      BY <1>11, LenProperties, Zenon DEF A
    <3> QED BY <2>4, <3>1, Zenon
  <2>6. q.pos - A = r.pos
    BY <1>2, <1>11, <1>13, SMT
  <2> QED BY <1>13, <2>5, <2>6, SMTT(60) DEF DataIsTrue, Positions, A
<1> QED BY <1>17, <1>18

\* The file has no more: at a frame's end, or inside one.
LEMMA Ending ==
  ASSUME NEW units \in Seq(Units), NEW r, ReaderIn(r, units), Honest(r, units),
         ~ r.busy, r.want > 0, r.at >= Len(units),
         IF r.eof THEN r.unused = << >> ELSE r.needs_input,
         NEW q \in Readers, q.busy = r.busy, q.input = r.input, q.dec = r.dec,
         q.unconsumed = r.unconsumed, q.unused = r.unused, q.eof = r.eof,
         q.needs_input = r.needs_input, q.at = r.at, q.pos = r.pos, q.want = 0, q.data = r.data,
         q.end = r.eof, q.raised = ~ r.eof
  PROVE  ReaderIn(q, units) /\ Honest(q, units) /\ (DataIsTrue(r) => DataIsTrue(q))
<1> DEFINE w == WholeTo(units, Past(r))
<1>1. r \in Readers /\ In(r, units) /\ ~ r.raised /\ ~ r.end
  <2>1. r \in Readers
    BY DEF ReaderIn
  <2>2. r.want # 0
    BY <2>1, ReaderIs, SMT
  <2> QED BY <2>1, <2>2 DEF ReaderIn
<1>2. /\ r.dec \in Decoders /\ r.at \in Nat /\ r.pos \in Nat /\ r.eof \in BOOLEAN
      /\ r.busy \in BOOLEAN /\ 0 \in Nat /\ (~ r.eof) \in BOOLEAN
  BY <1>1, ReaderIs, SMT
<1>5. In(q, units)
  BY <1>1, SameIn, Zenon
<1>6. /\ r.at <= Len(units) /\ Len(InHand(r)) <= r.at
      /\ \/ w.result = r.dec.result /\ Agrees(r.dec, w)
         \/ w.result = "end" /\ Unbegun(r.dec)
      /\ BetweenCalls(r, w)
  BY <1>1, Zenon DEF In
<1>7. InHand(r) = << >>
  BY <1>2, <1>6 DEF InHand, BetweenCalls
<1>8. Past(r) = Len(units) /\ Len(units) \in Nat
  <2>1. Len(units) \in Nat /\ Len(<< >>) = 0
    BY LenProperties, SMT
  <2>2. Past(r) = r.at - 0
    BY <1>7, <2>1, Zenon DEF Past
  <2>3. Past(r) = Len(units)
    BY <1>2, <1>6, <2>1, <2>2, SMT
  <2> QED BY <2>1, <2>3
<1>9. w = Whole(units)
  BY <1>8 DEF Whole
<1> HIDE DEF w
<1>10. ASSUME r.eof PROVE w.result = "end" /\ r.pos = Len(w.out)
  <2>1. r.dec.result = "end" /\ Follows(w, r.pos, << >>, r.dec.pending)
    BY <1>6, <1>10 DEF BetweenCalls
  <2>2. w.result = "end" /\ r.dec.pending = << >>
    BY <1>6, <2>1 DEF Agrees, Unbegun
  <2>3. Len(<< >>) = 0
    BY SMT
  <2>4. Len(w.out) = (r.pos + 0) + 0
    BY <2>1, <2>2, <2>3 DEF Follows
  <2>5. r.pos = Len(w.out)
    BY <1>2, <2>4, SMT
  <2> QED BY <2>2, <2>5
<1>11. ASSUME ~ r.eof PROVE units = << >> \/ w.result # "end"
  <2>1. SUFFICES ASSUME w.result = "end" PROVE units = << >>
    OBVIOUS
  <2>2. r.dec.result # "end"
    BY <1>6, <1>11 DEF BetweenCalls
  <2>3. Past(r) = 0
    BY <1>6, <2>1, <2>2 DEF BetweenCalls
  <2> QED BY <1>8, <2>3, EmptySeq
<1>12. ReaderIn(q, units)
  BY <1>5 DEF ReaderIn
<1>13. Honest(q, units)
  BY <1>9, <1>10, <1>11 DEF Honest
<1>14. DataIsTrue(r) => DataIsTrue(q)
  BY DEF DataIsTrue
<1> QED BY <1>12, <1>13, <1>14

-----------------------------------------------------------------------------
(* The reader in the file.                                                 *)

LEMMA DecompressKeeps ==
  ASSUME ReaderRight, disk \in Seq(Units), Decompress
  PROVE  ReaderRight'
<1> DEFINE n == Advance
<1>1. /\ rd \in Readers /\ rd.want > 0 /\ ~ rd.busy /\ (UsesFile => Unread # << >>)
      /\ rd' = [rd EXCEPT !.busy = TRUE,
                          !.input = (IF rd.eof THEN << >> ELSE rd.unconsumed) \o Raw,
                          !.dec = Called(IF rd.eof THEN Fresh ELSE rd.dec, rd.want),
                          !.at = rd.at + Advance]
      /\ disk' = disk /\ lost' = lost
  BY DEF ReaderRight, ReaderIn, Decompress, Looping, Reads, writerVars
<1>2. /\ rd.raw \in Nat \ {0} /\ rd.at \in Nat /\ rd.eof \in BOOLEAN /\ rd.needs_input \in BOOLEAN
      /\ rd.unused \in Seq(Units) /\ rd.unconsumed \in Seq(Units) /\ InHand(rd) \in Seq(Units)
      /\ rd.dec \in Decoders
  BY <1>1, ReaderIs, Zenon
<1>3. ~ rd.raised /\ In(rd, disk)
  <2>1. rd.want # 0
    BY <1>1, ReaderIs, SMT
  <2> QED BY <2>1 DEF ReaderRight, ReaderIn
<1>4. Len(disk) \in Nat /\ rd.at <= Len(disk)
  BY <1>3, LenProperties DEF In
<1>5. Unread \in Seq(Units) /\ Len(Unread) = Len(disk) - rd.at
  BY <1>2, <1>4, SMT DEF Unread, Without
<1>6. UsesFile => Advance \in Nat \ {0} /\ rd.at + Advance <= Len(disk) /\ Raw = SubSeq(Unread, 1, Advance)
  <2>1. SUFFICES ASSUME UsesFile
                 PROVE  Advance \in Nat \ {0} /\ rd.at + Advance <= Len(disk) /\ Raw = SubSeq(Unread, 1, Advance)
    OBVIOUS
  <2> DEFINE m == Least(rd.raw, Len(Unread))
  <2>2. Raw = SubSeq(Unread, 1, m)
    BY <2>1 DEF Raw
  <2>3. Len(Unread) # 0
    BY <1>1, <1>5, <2>1, EmptySeq
  <2>4. m \in Nat \ {0} /\ m <= Len(Unread)
    BY <1>2, <1>4, <1>5, <2>3, SMT DEF Least
  <2> HIDE DEF m
  <2>5. Len(Raw) = m
    BY <1>5, <2>2, <2>4, SMT
  <2>6. Advance = m
    BY <2>1, <2>5 DEF Advance
  <2>7. rd.at + m <= Len(disk)
    BY <1>2, <1>4, <1>5, <2>4, SMT
  <2> QED BY <2>2, <2>4, <2>6, <2>7
<1>7. ~ UsesFile => Advance = 0
  BY DEF Advance
<1> DEFINE o == InHand(rd) \o SubSeq(Without(disk, rd.at), 1, Advance)
<1>8. (IF rd.eof THEN << >> ELSE rd.unconsumed) \o Raw = o
  <2>1. InHand(rd) = IF rd.eof THEN rd.unused ELSE rd.unconsumed
    BY <1>1 DEF InHand
  <2>2. CASE UsesFile
    <3>1. Raw = SubSeq(Without(disk, rd.at), 1, Advance)
      BY <1>6, <2>2 DEF Unread
    <3>2. InHand(rd) = IF rd.eof THEN << >> ELSE rd.unconsumed
      BY <2>1, <2>2 DEF UsesFile
    <3> QED BY <3>1, <3>2
  <2>3. CASE ~ UsesFile
    <3>1. Raw = IF rd.eof THEN rd.unused ELSE << >>
      BY <2>3 DEF Raw
    <3>2. SubSeq(Without(disk, rd.at), 1, Advance) = << >>
      BY <1>7, <2>3, <1>5, SMT DEF Unread
    <3>3. \A s \in Seq(Units) : << >> \o s = s /\ s \o << >> = s
      BY SMT
    <3>4. o = InHand(rd)
      BY <1>2, <3>2, <3>3
    <3>5. (IF rd.eof THEN << >> ELSE rd.unconsumed) \o Raw = InHand(rd)
      BY <1>2, <2>1, <3>1, <3>3
    <3> QED BY <3>4, <3>5
  <2> QED BY <2>2, <2>3
<1>9. Advance \in Nat /\ rd.at + Advance <= Len(disk)
  BY <1>2, <1>4, <1>6, <1>7, SMT
<1>10. /\ Advance # 0 => (IF rd.eof THEN rd.unused = << >> ELSE rd.needs_input)
       /\ rd.needs_input /\ ~ rd.eof => Advance # 0
       /\ rd.eof /\ rd.unused = << >> => Advance # 0
  <2>1. Advance # 0 => UsesFile
    BY <1>7
  <2>2. UsesFile => Advance # 0
    BY <1>6
  <2> QED BY <2>1, <2>2 DEF UsesFile
<1> DEFINE c == Called(IF rd.eof THEN Fresh ELSE rd.dec, rd.want)
<1>11. /\ rd' \in Readers
       /\ rd'.busy = TRUE /\ rd'.input = o /\ rd'.dec = c /\ rd'.at = rd.at + Advance /\ rd'.pos = rd.pos
       /\ rd'.want = rd.want /\ rd'.data = rd.data /\ rd'.raised = rd.raised /\ rd'.end = rd.end
  <2>1. o \in Seq(Units)
    <3>1. \A s, t \in Seq(Units) : s \o t \in Seq(Units)
      BY ConcatProperties
    <3>2. \A t \in Seq(Units) : \A m \in Nat : m <= Len(t) => SubSeq(t, 1, m) \in Seq(Units)
      BY SMT
    <3>3. Without(disk, rd.at) \in Seq(Units) /\ Advance <= Len(Without(disk, rd.at))
      BY <1>2, <1>4, <1>5, <1>9, SMT DEF Unread
    <3> QED BY <1>2, <1>9, <3>1, <3>2, <3>3
  <2>2. c \in Decoders
    <3>1. \A d \in Decoders : [d EXCEPT !.room = rd.want, !.out = << >>, !.result = "more"] \in Decoders
      <4>1. << >> \in Seq(Int) /\ rd.want \in Int
        BY <1>1, ReaderIs, EmptySeq, SMT
      <4> QED BY <4>1, Zenon DEF Decoders
    <3>2. (IF rd.eof THEN Fresh ELSE rd.dec) \in Decoders
      BY <1>2, FreshIs
    <3> QED BY <3>1, <3>2, DrainedIs DEF Called
  <2>3. rd.at + Advance \in Nat
    BY <1>2, <1>9, SMT
  <2>4. rd' = [rd EXCEPT !.busy = TRUE, !.input = o, !.dec = c, !.at = rd.at + Advance]
    BY <1>1, <1>8
  <2> HIDE DEF o, c
  <2>5. rd \in Readers
    BY <1>1
  <2>6. rd' \in Readers
    BY <2>1, <2>2, <2>3, <2>4, <2>5, Zenon DEF Readers
  <2>7. /\ rd'.busy = TRUE /\ rd'.input = o /\ rd'.dec = c /\ rd'.at = rd.at + Advance
        /\ rd'.pos = rd.pos /\ rd'.want = rd.want /\ rd'.data = rd.data /\ rd'.raised = rd.raised
        /\ rd'.end = rd.end
    BY <2>4, <2>5, SMT DEF Readers
  <2> QED BY <2>6, <2>7
<1>12. ReaderIn(rd', disk) /\ Honest(rd', disk) /\ (DataIsTrue(rd) => DataIsTrue(rd'))
  <2>1. ReaderIn(rd, disk) /\ Honest(rd, disk)
    BY DEF ReaderRight
  <2> QED BY <1>1, <1>9, <1>10, <1>11, <2>1, Decompressing, Zenon
<1> QED BY <1>1, <1>12 DEF ReaderRight

LEMMA TakeUnitKeeps ==
  ASSUME ReaderRight, disk \in Seq(Units), TakeUnit
  PROVE  ReaderRight'
<1>1. /\ rd \in Readers /\ rd.busy /\ ~ Stopped(rd.dec) /\ rd.input # << >>
      /\ rd' = [rd EXCEPT !.dec = Take(rd.dec, Head(rd.input)), !.input = Tail(rd.input)]
      /\ disk' = disk /\ lost' = lost /\ ReaderIn(rd, disk) /\ Honest(rd, disk)
  BY DEF ReaderRight, ReaderIn, TakeUnit, Reads, writerVars
<1>2. In(rd, disk)
  BY <1>1 DEF ReaderIn
<1>3. Take(rd.dec, Head(rd.input)) \in Decoders /\ Tail(rd.input) \in Seq(Units)
  BY <1>1, <1>2, NextUnit, Zenon
<1> DEFINE e == Take(rd.dec, Head(rd.input))
<1> DEFINE t == Tail(rd.input)
<1>4. /\ rd' \in Readers
      /\ rd'.busy = rd.busy /\ rd'.input = t /\ rd'.dec = e /\ rd'.at = rd.at /\ rd'.pos = rd.pos
      /\ rd'.want = rd.want /\ rd'.data = rd.data /\ rd'.raised = rd.raised /\ rd'.end = rd.end
  <2>1. rd' = [rd EXCEPT !.dec = e, !.input = t] /\ e \in Decoders /\ t \in Seq(Units)
    BY <1>1, <1>3
  <2> HIDE DEF e, t
  <2>2. rd \in Readers
    BY <1>1
  <2>3. rd' \in Readers
    BY <2>1, <2>2, Zenon DEF Readers
  <2>4. /\ rd'.busy = rd.busy /\ rd'.input = t /\ rd'.dec = e /\ rd'.at = rd.at /\ rd'.pos = rd.pos
        /\ rd'.want = rd.want /\ rd'.data = rd.data /\ rd'.raised = rd.raised /\ rd'.end = rd.end
    BY <2>1, <2>2, SMT DEF Readers
  <2> QED BY <2>3, <2>4
<1>5. ReaderIn(rd', disk) /\ Honest(rd', disk) /\ (DataIsTrue(rd) => DataIsTrue(rd'))
  BY <1>1, <1>4, Taking, Zenon
<1> QED BY <1>1, <1>5 DEF ReaderRight

LEMMA ReturnKeeps ==
  ASSUME ReaderRight, disk \in Seq(Units), ~ lost => TrueRow(disk), DecompressReturns
  PROVE  ReaderRight'
<1> DEFINE d == rd.dec
<1> DEFINE ended == d.result = "end"
<1> DEFINE k == Kept(rd.input, ended)
<1> DEFINE u == IF ended THEN rd.input ELSE << >>
<1> DEFINE m == NeedsInput(rd.input, ended)
<1> DEFINE n == IF d.out = << >> THEN rd.want ELSE 0
<1>1. /\ rd \in Readers /\ rd.busy /\ (Stopped(d) \/ rd.input = << >>)
      /\ disk' = disk /\ lost' = lost /\ ReaderIn(rd, disk) /\ Honest(rd, disk)
  BY DEF ReaderRight, ReaderIn, DecompressReturns, Reads, writerVars
<1>2. CASE d.result = "error"
  <2>1. rd' = [rd EXCEPT !.busy = FALSE, !.raised = TRUE, !.want = 0]
    BY <1>2 DEF DecompressReturns
  <2>2. ReaderIn(rd', disk) /\ Honest(rd', disk) /\ (DataIsTrue(rd) => DataIsTrue(rd'))
    BY <1>1, <1>2, <2>1, Raising, Zenon
  <2> QED BY <1>1, <2>2 DEF ReaderRight
<1>3. CASE d.result # "error"
  <2>1. rd' = [rd EXCEPT !.busy = FALSE, !.input = << >>, !.unconsumed = k, !.unused = u,
                         !.eof = ended, !.needs_input = m, !.pos = rd.pos + Len(d.out),
                         !.data = d.out, !.want = n]
    BY <1>3, Zenon DEF DecompressReturns
  <2>2. /\ d \in Decoders /\ rd.input \in Seq(Units) /\ rd.needs_input \in BOOLEAN
        /\ rd.pos \in Nat /\ rd.want \in Nat /\ d.out \in Seq(Int)
    BY <1>1, ReaderIs, DecoderIs, Zenon
  <2>3. << >> \in Seq(Units) /\ 0 \in Nat /\ Len(d.out) \in Nat
    BY <2>2, EmptySeq, LenProperties, SMT
  <2>4. k \in Seq(Units) /\ u \in Seq(Units) /\ n \in Nat
    BY <2>2, <2>3, Zenon DEF Kept
  <2>5. m \in BOOLEAN /\ (~ ended => m = (rd.input = << >>))
    <3>1. CASE rd.input = << >>
      BY <3>1 DEF NeedsInput
    <3>2. CASE rd.input # << >>
      BY <2>2, <3>2 DEF NeedsInput
    <3> QED BY <3>1, <3>2
  <2>6. ended \in BOOLEAN /\ rd.pos + Len(d.out) \in Nat
    BY <2>2, <2>3, SMT
  <2> DEFINE p == rd.pos + Len(d.out)
  <2>7. /\ rd' \in Readers
        /\ rd'.busy = FALSE /\ rd'.unconsumed = k /\ rd'.unused = u /\ rd'.eof = ended
        /\ rd'.needs_input = m /\ rd'.pos = p /\ rd'.data = d.out /\ rd'.want = n /\ rd'.dec = rd.dec
        /\ rd'.at = rd.at /\ rd'.raised = rd.raised /\ rd'.end = rd.end
    <3>1. p \in Nat
      BY <2>6
    <3> HIDE DEF k, u, m, n, p, ended, d
    <3>2. rd' = [rd EXCEPT !.busy = FALSE, !.input = << >>, !.unconsumed = k, !.unused = u,
                           !.eof = ended, !.needs_input = m, !.pos = p, !.data = d.out, !.want = n]
      BY <2>1 DEF p
    <3>3. rd \in Readers /\ << >> \in Seq(Units)
      BY <1>1, <2>3
    <3>4. rd' \in Readers
      BY <2>2, <2>4, <2>5, <2>6, <3>1, <3>2, <3>3, ZenonT(60) DEF Readers, d
    <3>5. /\ rd'.busy = FALSE /\ rd'.unconsumed = k /\ rd'.unused = u /\ rd'.eof = ended
          /\ rd'.needs_input = m /\ rd'.pos = p /\ rd'.data = d.out /\ rd'.want = n
          /\ rd'.dec = rd.dec /\ rd'.at = rd.at /\ rd'.raised = rd.raised /\ rd'.end = rd.end
      BY <3>2, <3>3, SMT DEF Readers
    <3> QED BY <3>4, <3>5
  <2> HIDE DEF m, n
  <2>8. ReaderIn(rd', disk) /\ Honest(rd', disk) /\ (TrueRow(disk) => DataIsTrue(rd'))
    BY <1>1, <1>3, <2>4, <2>5, <2>7, Returning, Zenon
  <2> QED BY <1>1, <2>8 DEF ReaderRight
<1> QED BY <1>2, <1>3

LEMMA ReadEndKeeps ==
  ASSUME ReaderRight, disk \in Seq(Units), ReadEnd
  PROVE  ReaderRight'
<1>1. /\ rd \in Readers /\ ~ rd.busy /\ rd.want > 0 /\ UsesFile /\ Unread = << >>
      /\ rd' = [rd EXCEPT !.want = 0, !.end = rd.eof, !.raised = ~ rd.eof]
      /\ disk' = disk /\ lost' = lost /\ ReaderIn(rd, disk) /\ Honest(rd, disk)
  BY DEF ReaderRight, ReaderIn, ReadEnd, Looping, Reads, writerVars
<1>2. rd.eof \in BOOLEAN /\ rd.at \in Nat /\ Len(disk) \in Nat
  BY <1>1, ReaderIs, LenProperties
<1>3. rd.at >= Len(disk)
  <2>1. SUFFICES ASSUME rd.at < Len(disk) PROVE FALSE
    BY <1>2, SMT
  <2>2. Len(Unread) = Len(disk) - rd.at
    BY <1>2, <2>1, SMT DEF Unread, Without
  <2>3. Len(Unread) = 0
    BY <1>1, SMT
  <2> QED BY <1>2, <2>1, <2>2, <2>3, SMT
<1> DEFINE a == ~ rd.eof
<1> DEFINE e == rd.eof
<1>4. /\ rd' \in Readers
      /\ rd'.busy = rd.busy /\ rd'.input = rd.input /\ rd'.dec = rd.dec
      /\ rd'.unconsumed = rd.unconsumed /\ rd'.unused = rd.unused /\ rd'.eof = rd.eof
      /\ rd'.needs_input = rd.needs_input /\ rd'.at = rd.at /\ rd'.pos = rd.pos /\ rd'.want = 0
      /\ rd'.data = rd.data /\ rd'.end = e /\ rd'.raised = a
  <2>1. rd' = [rd EXCEPT !.want = 0, !.end = e, !.raised = a] /\ a \in BOOLEAN /\ e \in BOOLEAN
    BY <1>1, <1>2
  <2> HIDE DEF a, e
  <2>2. rd \in Readers /\ 0 \in Nat
    BY <1>1, SMT
  <2>3. rd' \in Readers
    BY <2>1, <2>2, Zenon DEF Readers
  <2>4. /\ rd'.busy = rd.busy /\ rd'.input = rd.input /\ rd'.dec = rd.dec
        /\ rd'.unconsumed = rd.unconsumed /\ rd'.unused = rd.unused /\ rd'.eof = rd.eof
        /\ rd'.needs_input = rd.needs_input /\ rd'.at = rd.at /\ rd'.pos = rd.pos /\ rd'.want = 0
        /\ rd'.data = rd.data /\ rd'.end = e /\ rd'.raised = a
    BY <2>1, <2>2, SMT DEF Readers
  <2> QED BY <2>3, <2>4
<1>5. IF rd.eof THEN rd.unused = << >> ELSE rd.needs_input
  BY <1>1 DEF UsesFile
<1>6. ReaderIn(rd', disk) /\ Honest(rd', disk) /\ (DataIsTrue(rd) => DataIsTrue(rd'))
  BY <1>1, <1>3, <1>4, <1>5, Ending, Zenon
<1> QED BY <1>1, <1>6 DEF ReaderRight

\* A new reader, and one that nothing has been done with, fits any file.
LEMMA NewReaderRight ==
  ASSUME disk' \in Seq(Units), NEW raw \in Nat \ {0}, rd' = NewReader(raw)
  PROVE  ReaderRight'
<1>1. ReaderIn(rd', disk') /\ Honest(rd', disk') /\ DataIsTrue(rd')
  BY NewReaderFits, Zenon
<1> QED BY <1>1 DEF ReaderRight

LEMMA ReaderStays ==
  ASSUME ReaderRight, Calling, disk \in Seq(Units), ~ lost => TrueRow(disk),
         disk' \in Seq(Units), FileNext
  PROVE  ReaderRight'
<1>0. 1 \in Nat \ {0}
  BY SMT
<1>1. ASSUME NEW p \in Choices, open(p) PROVE ReaderRight'
  BY <1>0, <1>1, NewReaderRight DEF open
<1>2. CASE BeginFrame
  <2>1. mode # "read"
    BY <1>2 DEF BeginFrame, Calling
  <2> QED BY <1>0, <1>2, <2>1, NewReaderRight DEF BeginFrame, Calling
<1>3. ASSUME NEW n \in 0 .. MaxContent, write(n) PROVE ReaderRight'
  BY <1>0, <1>3, NewReaderRight DEF write, Calling
<1>4. CASE CompressData
  <2>1. mode # "read"
    BY <1>4 DEF CompressData, Calling
  <2> QED BY <1>0, <1>4, <2>1, NewReaderRight DEF CompressData, Calling
<1>5. CASE flushFile
  BY <1>0, <1>5, NewReaderRight DEF flushFile, FlushFrame, Calling
<1>6. CASE close
  BY <1>0, <1>6, NewReaderRight DEF close, FinalFlush, FlushFrame, Calling
<1>7. CASE Closed
  <2>1. mode # "read"
    BY <1>7 DEF Closed, Calling
  <2> QED BY <1>0, <1>7, <2>1, NewReaderRight DEF Closed, Calling
<1>8. ASSUME NEW p \in Choices, NEW n \in 0 .. MaxContent, CompressOneShot(n, p) PROVE ReaderRight'
  BY <1>0, <1>8, NewReaderRight DEF CompressOneShot
<1>9. CASE AppendSkippable
  BY <1>0, <1>9, NewReaderRight DEF AppendSkippable
<1>10. ASSUME NEW k \in 0 .. Len(disk) - 1, NEW torn \in BOOLEAN, CutShort(k, torn) PROVE ReaderRight'
  BY <1>0, <1>10, NewReaderRight DEF CutShort
<1>11. ASSUME NEW raw \in RawReads, OpenForReading(raw) PROVE ReaderRight'
  <2>1. raw \in Nat \ {0} /\ rd' = NewReader(raw)
    BY <1>11, FileAssumption DEF OpenForReading
  <2> QED BY <2>1, NewReaderRight
<1>12. CASE CloseReader
  BY <1>0, <1>12, NewReaderRight DEF CloseReader
<1>13. ASSUME NEW size \in ReadSizes, read(size) PROVE ReaderRight'
  <2>1. /\ size \in Nat \ {0} /\ ~ rd.raised /\ ~ rd.end /\ rd.want = 0
        /\ rd' = [rd EXCEPT !.want = size, !.data = << >>] /\ disk' = disk
        /\ ReaderIn(rd, disk) /\ Honest(rd, disk)
    BY <1>13, FileAssumption DEF read, Idle, Reads, writerVars, ReaderRight
  <2>2. ReaderIn(rd', disk) /\ Honest(rd', disk) /\ DataIsTrue(rd')
    BY <2>1, Asked, Zenon
  <2> QED BY <2>1, <2>2 DEF ReaderRight
<1>14. ASSUME NEW offset \in Offsets, seek(offset) PROVE ReaderRight'
  <2> DEFINE r == IF offset < rd.pos THEN Rewound(rd) ELSE rd
  <2>1. /\ rd' = [r EXCEPT !.skip = offset, !.data = << >>] /\ disk' = disk /\ offset \in Nat
    BY <1>14, FileAssumption DEF seek, Reads, writerVars
  <2>2. ReaderIn(rd, disk) /\ Honest(rd, disk) /\ rd \in Readers
    BY DEF ReaderRight, ReaderIn
  <2>3. ReaderIn(Rewound(rd), disk) /\ Honest(Rewound(rd), disk)
    BY <2>2, ReaderIs, NewReaderFits, Zenon DEF Rewound
  <2>4. ReaderIn(r, disk) /\ Honest(r, disk)
    BY <2>2, <2>3, Zenon
  <2> HIDE DEF r
  <2>5. ReaderIn(rd', disk) /\ Honest(rd', disk) /\ DataIsTrue(rd')
    BY <2>1, <2>4, Sought, Zenon
  <2> QED BY <2>1, <2>5 DEF ReaderRight
<1>15. CASE SkipData
  <2>1. /\ ~ rd.raised /\ ~ rd.end /\ rd.want = 0 /\ rd.pos < rd.skip
        /\ rd' = [rd EXCEPT !.want = rd.skip - rd.pos, !.data = << >>] /\ disk' = disk
        /\ ReaderIn(rd, disk) /\ Honest(rd, disk) /\ rd \in Readers
    BY <1>15 DEF SkipData, Idle, Reads, writerVars, ReaderRight, ReaderIn
  <2>2. rd.skip - rd.pos \in Nat \ {0}
    BY <2>1, ReaderIs, SMT
  <2>3. ReaderIn(rd', disk) /\ Honest(rd', disk) /\ DataIsTrue(rd')
    BY <2>1, <2>2, Asked, Zenon
  <2> QED BY <2>1, <2>3 DEF ReaderRight
<1>16. CASE ReadStep
  BY <1>16, DecompressKeeps, TakeUnitKeeps, ReturnKeeps, ReadEndKeeps DEF ReadStep
<1>17. CASE DecompressOneShot
  <2>1. rd' = rd /\ disk' = disk /\ lost' = lost
    BY <1>17 DEF DecompressOneShot, writerVars
  <2> QED BY <2>1 DEF ReaderRight
<1> QED BY <1>1, <1>2, <1>3, <1>4, <1>5, <1>6, <1>7, <1>8, <1>9, <1>10, <1>11, <1>12, <1>13, <1>14,
           <1>15, <1>16, <1>17, Zenon DEF FileNext

-----------------------------------------------------------------------------
(* The compressor in the file: its calls, and the end of it.               *)

LEMMA VarsStep ==
  ASSUME Calling, FileTypes, FileNext
  PROVE  [Next]_vars \/ Closed
<1>1. CASE BeginFrame
  <2>1. begin(prefs) /\ prefs \in Choices
    BY <1>1 DEF BeginFrame, Calling, FileTypes
  <2> QED BY <2>1 DEF Next
<1>2. CASE CompressData
  <2>1. compress(todo) /\ todo \in 0 .. MaxContent
    BY <1>2 DEF CompressData, Calling
  <2> QED BY <2>1 DEF Next
<1>3. CASE FlushFrame
  BY <1>3 DEF FlushFrame, Next
<1>4. CASE UNCHANGED vars
  BY <1>4
<1>5. CASE Closed
  BY <1>5
<1>6. BeginFrame \/ CompressData \/ FlushFrame \/ UNCHANGED vars \/ Closed
  BY Zenon DEF FileNext, open, write, flushFile, close, FinalFlush, CompressOneShot, AppendSkippable, CutShort,
               OpenForReading, CloseReader, read, seek, SkipData, ReadStep, Decompress, TakeUnit,
               DecompressReturns, ReadEnd, Reads, DecompressOneShot
<1> QED BY <1>1, <1>2, <1>3, <1>5, <1>6

LEMMA ClosedStep ==
  ASSUME IInv, Closed
  PROVE  IInv' /\ NeverTooSmall'
<1>1. /\ has' = FALSE /\ cctx' = NewContext /\ started' = FALSE
      /\ accepted' = 0 /\ sent' = 0 /\ clean' = TRUE /\ ret' = Raised("ok")
  BY DEF Closed
<1>2. ret'.status = "ok" /\ ret'.parts = {} /\ ret'.cap = 0 /\ ret'.written = 0
  BY <1>1 DEF Raised
<1>3. TypeOK'
  <2>1. IsContext(NewContext, ContentSizes) /\ 0 \in Nat /\ "ok" \in Statuses
    BY NewContextTypes, SMT DEF Statuses
  <2> QED BY <1>1, <1>2, <2>1 DEF TypeOK
<1>4. Held' /\ Clean' /\ PromiseKept'
  BY <1>1, <1>2 DEF Held, Clean, PromiseKept
<1>5. NeverTooSmall'
  BY <1>2, SMT DEF NeverTooSmall
<1> QED BY <1>3, <1>4, <1>5 DEF IInv

LEMMA CompressorStays ==
  ASSUME IInv, NeverTooSmall, Calling, FileTypes, FileNext
  PROVE  IInv' /\ NeverTooSmall'
BY VarsStep, ClosedStep, NextIInv, StepHasRoom

\* What a call that returned, or that raised, has done.
LEMMA BeginOutcome ==
  ASSUME NEW p, ~ started, begin(p)
  PROVE  /\ ret'.status \in {"ok", "MemoryError", "allocation"}
         /\ ret'.status = "ok" => has' = TRUE /\ BeginDone(p)
         /\ ret'.status # "ok" => started' = started /\ accepted' = accepted /\ sent' = sent
<1>1. (has' = TRUE /\ (BeginDone(p) \/ BeginRaises(p))) \/ CreateRaises
  BY DEF begin
<1>2. CASE has' = TRUE /\ BeginDone(p)
  BY <1>2 DEF BeginDone, HeaderReturned, Returned
<1>3. CASE BeginRaises(p)
  <2>1. ret'.status \in {"MemoryError", "allocation"}
    BY <1>3 DEF BeginRaises, BeginFailures, Raised
  <2> QED BY <1>3, <2>1 DEF BeginRaises
<1>4. CASE CreateRaises
  <2>1. ret'.status \in {"MemoryError", "allocation"}
    BY <1>4 DEF CreateRaises, Raised
  <2> QED BY <1>4, <2>1 DEF CreateRaises
<1> QED BY <1>1, <1>2, <1>3, <1>4

LEMMA CompressOutcome ==
  ASSUME NEW n, has, started, compress(n)
  PROVE  /\ has' = has /\ started' = started
         /\ ret'.status \in {"ok", "MemoryError", "notStarted", "tooSmall"}
         /\ ret'.status = "ok" =>
              /\ ~ ChunkRefused(cctx, n) /\ cctx' = Update(cctx, accepted, n) /\ accepted' = accepted + n
              /\ sent' = sent + UpdateBytes(cctx, n) /\ clean' = clean
              /\ ret' = ChunkReturned(cctx, accepted, n)
         /\ ret'.status # "ok" =>
              /\ sent' = sent /\ clean' = FALSE
              /\ \/ cctx' = cctx /\ accepted' = accepted
                 \/ /\ ret'.status = "MemoryError" /\ ~ ChunkRefused(cctx, n)
                    /\ cctx' = Update(cctx, accepted, n) /\ accepted' = accepted + n
<1>1. has' = has /\ started' = started /\ (CompressDone(n) \/ CompressRaises(n))
  BY DEF compress
<1>2. CASE CompressDone(n)
  <2>1. CASE ret' = ChunkReturned(cctx, accepted, n) /\ sent' = sent + UpdateBytes(cctx, n) /\ clean' = clean
    BY <1>1, <1>2, <2>1 DEF CompressDone, ChunkReturned, Returned
  <2>2. CASE ret' = Raised("MemoryError") /\ clean' = FALSE /\ sent' = sent
    BY <1>1, <1>2, <2>2 DEF CompressDone, Raised
  <2> QED BY <1>2, <2>1, <2>2 DEF CompressDone
<1>3. CASE CompressRaises(n)
  <2>1. ret'.status \in {"MemoryError", "notStarted", "tooSmall"}
    BY <1>3 DEF CompressRaises, ChunkRaised, Raised
  <2> QED BY <1>1, <1>3, <2>1 DEF CompressRaises
<1> QED BY <1>1, <1>2, <1>3

LEMMA FlushOutcome ==
  ASSUME has, flush
  PROVE  /\ ret'.status \in {"ok", "MemoryError", "notStarted", "tooSmall", "frameSize"}
         /\ accepted' = accepted
         /\ ret'.status = "ok" => FlushReturns
         /\ ret'.status # "ok" =>
              /\ has' = has /\ started' = started /\ sent' = sent /\ clean' = FALSE
              /\ \/ cctx' = cctx
                 \/ FlushRefused(cctx, TRUE) /\ cctx' = AfterRefusedFlush(cctx) /\ ret' = FlushRaised(cctx)
                 \/ /\ ~ FlushRefused(cctx, TRUE) /\ cctx' = End(cctx)
                    /\ ret' = Raised(IF WrongSize(cctx) THEN "frameSize" ELSE "MemoryError")
<1>1. FlushReturns \/ FlushRaises
  BY DEF flush
<1>2. CASE FlushReturns
  BY <1>2 DEF FlushReturns, FlushReturned, Returned
<1>3. CASE FlushRaises
  <2>1. ret'.status \in {"MemoryError", "notStarted", "tooSmall", "frameSize"}
    <3>1. \A k : Raised(k).status = k
      BY DEF Raised
    <3>2. FlushRaised(cctx).status \in {"notStarted", "tooSmall"}
      BY <3>1, Zenon DEF FlushRaised
    <3>3. Raised(IF WrongSize(cctx) THEN "frameSize" ELSE "MemoryError").status \in {"frameSize", "MemoryError"}
      BY <3>1, Zenon
    <3> QED BY <1>3, <3>1, <3>2, <3>3 DEF FlushRaises
  <2> QED BY <1>3, <2>1 DEF FlushRaises
<1> QED BY <1>1, <1>2, <1>3

LEMMA NoShotIs ==
  NoShot.status = "none" /\ NoShot.data = << >> /\ NoShot.ret = Raised("ok") /\ NoShot.cctx = NewContext
BY DEF NoShot

LEMMA CallingStays ==
  ASSUME Calling, FileTypes, IInv, FileNext
  PROVE  Calling'
<1>0. started \in BOOLEAN /\ has \in BOOLEAN
  BY Types
<1>1. ASSUME NEW p \in Choices, open(p) PROVE Calling'
  BY <1>1 DEF open, Calling, vars
<1>2. CASE BeginFrame
  <2>1. begin(prefs) /\ ~ started /\ step = "begin" /\ mode = "write"
    BY <1>2 DEF BeginFrame, Calling
  <2>2. /\ ret'.status = "ok" => has' = TRUE /\ started' = TRUE
        /\ ret'.status # "ok" => started' = started
    BY <2>1, BeginOutcome DEF BeginDone
  <2>3. /\ mode' = mode /\ todo' = todo /\ cut' = cut /\ rd' = rd /\ shot' = shot
        /\ ret'.status = "ok" => /\ step' \in {"idle", "orphan", "compress"}
                                 /\ step' = "compress" => todo # -1
        /\ ret'.status # "ok" => step' \in {"idle", "orphan"}
    BY <1>2, Zenon DEF BeginFrame
  <2> QED BY <2>1, <2>2, <2>3 DEF Calling
<1>3. ASSUME NEW n \in 0 .. MaxContent, write(n) PROVE Calling'
  <2>1. step' = IF started THEN "compress" ELSE "begin"
    BY <1>3 DEF write, NextStep
  <2>2. /\ mode = "write" /\ mode' = mode /\ todo' = n /\ started' = started /\ has' = has
        /\ cut' = cut /\ rd' = rd /\ shot' = shot
    BY <1>3 DEF write, vars
  <2> QED BY <1>0, <2>1, <2>2 DEF Calling
<1>4. CASE CompressData
  <2>1. /\ step = "compress" /\ step' = "idle" /\ mode = "write" /\ mode' = mode /\ has /\ started
        /\ compress(todo) /\ cut' = cut /\ rd' = rd /\ shot' = shot
    BY <1>4 DEF CompressData, Calling
  <2>2. has' = has /\ started' = started
    BY <2>1, CompressOutcome
  <2> QED BY <2>1, <2>2 DEF Calling
<1>5. ASSUME FlushFrame
      PROVE  /\ started' => has' /\ started /\ failed'
             /\ todo' = todo /\ cut' = cut /\ rd' = rd /\ shot' = shot
  <2>1. todo' = todo /\ cut' = cut /\ rd' = rd /\ shot' = shot
    BY <1>5 DEF FlushFrame
  <2>2. CASE ~ has /\ UNCHANGED vars
    BY <2>1, <2>2 DEF Calling, vars
  <2>3. CASE /\ has /\ flush
             /\ IF ret'.status = "ok" THEN \E kept \in Outages : FpWrite(kept, base) ELSE NotWritten
    <3>1. CASE ret'.status = "ok"
      BY <2>1, <2>3, <3>1, FlushOutcome DEF FlushReturns
    <3>2. CASE ret'.status # "ok"
      BY <2>1, <2>3, <3>2, FlushOutcome DEF NotWritten
    <3> QED BY <3>1, <3>2
  <2> QED BY <1>5, <2>2, <2>3 DEF FlushFrame
<1>6. CASE flushFile
  <2>1. mode = "write" /\ step = "idle" /\ mode' = mode /\ step' = step /\ FlushFrame
    BY <1>6 DEF flushFile
  <2> QED BY <1>5, <2>1 DEF Calling
<1>7. CASE close
  <2>1. mode = "write" /\ step' = "closing" /\ mode' = mode /\ FlushFrame
    BY <1>7 DEF close, FinalFlush
  <2> QED BY <1>5, <2>1 DEF Calling
<1>8. CASE Closed
  <2>1. mode = "write"
    BY <1>8 DEF Closed, Calling
  <2> QED BY <1>8, <2>1 DEF Closed, Calling
<1>9. ASSUME NEW p \in Choices, NEW n \in 0 .. MaxContent, CompressOneShot(n, p) PROVE Calling'
  BY <1>9 DEF CompressOneShot, Calling, vars
<1>10. CASE AppendSkippable
  BY <1>10 DEF AppendSkippable, Calling, vars
<1>11. ASSUME NEW k \in 0 .. Len(disk) - 1, NEW torn \in BOOLEAN, CutShort(k, torn) PROVE Calling'
  BY <1>11 DEF CutShort, Calling, vars
<1>12. ASSUME NEW raw \in RawReads, OpenForReading(raw) PROVE Calling'
  BY <1>12 DEF OpenForReading, Calling, vars
<1>13. CASE CloseReader
  BY <1>13 DEF CloseReader, Calling, vars
<1>14. ASSUME Reads, mode = "read" PROVE Calling'
  BY <1>14 DEF Reads, Calling, vars, writerVars
<1>15. ASSUME NEW size \in ReadSizes, read(size) PROVE Calling'
  BY <1>14, <1>15 DEF read, Idle
<1>16. ASSUME NEW offset \in Offsets, seek(offset) PROVE Calling'
  BY <1>14, <1>16 DEF seek, Idle
<1>17. CASE SkipData
  BY <1>14, <1>17 DEF SkipData, Idle
<1>18. CASE ReadStep
  <2>1. Reads
    BY <1>18 DEF ReadStep, Decompress, TakeUnit, DecompressReturns, ReadEnd
  <2>2. rd # NewReader(1)
    <3>1. NewReader(1).want = 0 /\ NewReader(1).busy = FALSE
      BY DEF NewReader
    <3>2. rd.want > 0 \/ rd.busy
      BY <1>18 DEF ReadStep, Decompress, TakeUnit, DecompressReturns, ReadEnd, Looping
    <3>3. ~ (0 > 0)
      BY SMT
    <3> QED BY <3>1, <3>2, <3>3
  <2> QED BY <1>14, <2>1, <2>2 DEF Calling
<1>19. CASE DecompressOneShot
  BY <1>19 DEF DecompressOneShot, Calling, vars, writerVars
<1> QED BY <1>1, <1>2, <1>3, <1>4, <1>6, <1>7, <1>8, <1>9, <1>10, <1>11, <1>12, <1>13,
           <1>15, <1>16, <1>17, <1>18, <1>19, Zenon DEF FileNext

\* The calls the class passes on, and a context that is refused for its stage.
LEMMA NotStarted ==
  ASSUME (\E n : has /\ started /\ compress(n)) \/ (has /\ flush), ret'.status = "notStarted"
  PROVE  cctx.cStage # 1
<1>1. \A k : Raised(k).status = k
  BY DEF Raised
<1>2. ASSUME NEW n, has, started, compress(n) PROVE cctx.cStage # 1
  <2>1. ret'.status # "ok" /\ ret'.status # "MemoryError"
    OBVIOUS
  <2>2. CompressDone(n) \/ CompressRaises(n)
    BY <1>2 DEF compress
  <2>3. CompressDone(n) => ret'.status \in {"ok", "MemoryError"}
    <3>1. CompressDone(n) => ret' = ChunkReturned(cctx, accepted, n) \/ ret' = Raised("MemoryError")
      BY DEF CompressDone
    <3>2. ChunkReturned(cctx, accepted, n).status = "ok"
      BY DEF ChunkReturned, Returned
    <3> QED BY <1>1, <3>1, <3>2, Zenon
  <2>4. ret' = Raised("MemoryError") \/ ret' = ChunkRaised(cctx)
    <3>1. CompressRaises(n)
      BY <2>1, <2>2, <2>3
    <3> QED BY <3>1 DEF CompressRaises
  <2>5. ret' = ChunkRaised(cctx)
    <3>1. ret' # Raised("MemoryError")
      BY <1>1, <2>1
    <3> QED BY <2>4, <3>1
  <2> QED BY <1>1, <2>5 DEF ChunkRaised
<1>3. CASE has /\ flush
  <2>1. ret'.status # "ok"
    OBVIOUS
  <2>2. FlushRaises
    <3>1. FlushReturns \/ FlushRaises
      BY <1>3 DEF flush
    <3>2. FlushReturns => ret' = FlushReturned(cctx, TRUE)
      BY DEF FlushReturns
    <3>3. FlushReturned(cctx, TRUE).status = "ok"
      BY DEF FlushReturned, Returned
    <3> QED BY <2>1, <3>1, <3>2, <3>3
  <2>3. ret' = FlushRaised(cctx)
    <3>1. \/ ret' = Raised("MemoryError")
          \/ ret' = FlushRaised(cctx)
          \/ ret' = Raised(IF WrongSize(cctx) THEN "frameSize" ELSE "MemoryError")
      BY <2>2 DEF FlushRaises
    <3>2. Raised(IF WrongSize(cctx) THEN "frameSize" ELSE "MemoryError").status # "notStarted"
      BY <1>1
    <3>3. Raised("MemoryError").status # "notStarted"
      BY <1>1
    <3> QED BY <3>1, <3>2, <3>3
  <2> QED BY <1>1, <2>3 DEF FlushRaised, FlushNotStarted
<1> QED BY <1>2, <1>3

\* What the last call came to: refused it only is in a frame already spoilt.
SpoiltIfRefused == ret.status # "refused" /\ (ret.status = "notStarted" => ~ clean)

\* No call of the file is one its compressor refuses, but for those of a frame in
\* which a call has raised.
LEMMA CallsInOrder ==
  ASSUME IInv, Calling, SpoiltIfRefused, FileNext
  PROVE  /\ ret'.status # "refused" /\ (ret'.status = "notStarted" => ~ clean)
         /\ SpoiltIfRefused'
<1>0. clean => (started => cctx.cStage = 1) /\ (has => started)
  BY DEF IInv, Clean
<1>1. CASE BeginFrame
  <2>1. begin(prefs) /\ ~ started
    BY <1>1 DEF BeginFrame, Calling
  <2>2. ret'.status # "refused" /\ ret'.status # "notStarted"
    BY <2>1, BeginOutcome
  <2> QED BY <2>2 DEF SpoiltIfRefused
<1>2. CASE CompressData
  <2>1. compress(todo) /\ has /\ started
    BY <1>2 DEF CompressData, Calling
  <2>2. ret'.status # "refused" /\ (ret'.status = "notStarted" => clean' = FALSE)
    BY <2>1, CompressOutcome
  <2>3. ret'.status = "notStarted" => cctx.cStage # 1
    BY <2>1, NotStarted
  <2> QED BY <1>0, <2>1, <2>2, <2>3 DEF SpoiltIfRefused
<1>3. CASE FlushFrame
  <2>1. CASE has /\ flush
    <3>1. ret'.status # "refused" /\ (ret'.status = "notStarted" => clean' = FALSE)
      BY <2>1, FlushOutcome
    <3>2. ret'.status = "notStarted" => cctx.cStage # 1
      BY <2>1, NotStarted
    <3> QED BY <1>0, <2>1, <3>1, <3>2 DEF SpoiltIfRefused
  <2>2. CASE UNCHANGED vars
    BY <2>2 DEF vars, SpoiltIfRefused
  <2> QED BY <1>3, <2>1, <2>2 DEF FlushFrame
<1>4. CASE UNCHANGED vars
  BY <1>4 DEF vars, SpoiltIfRefused
<1>5. CASE Closed
  BY <1>5 DEF Closed, Raised, SpoiltIfRefused
<1>6. BeginFrame \/ CompressData \/ FlushFrame \/ UNCHANGED vars \/ Closed
  BY Zenon DEF FileNext, open, write, flushFile, close, FinalFlush, CompressOneShot, AppendSkippable, CutShort,
               OpenForReading, CloseReader, read, seek, SkipData, ReadStep, Decompress, TakeUnit,
               DecompressReturns, ReadEnd, Reads, DecompressOneShot
<1> QED BY <1>1, <1>2, <1>3, <1>4, <1>5, <1>6

-----------------------------------------------------------------------------
(* A frame in one call.                                                    *)

\* A block size is one of those there are, and holds the n bytes if it is not
\* the one asked for.
LEMMA OptimalBlockIs ==
  ASSUME NEW requested \in BlockSizes, NEW n \in Nat
  PROVE  LET b == OptimalBlock(requested, n)
         IN  b \in BlockSizes /\ b \in Nat /\ b > 0 /\ (b = requested \/ (b < requested /\ n <= b))
<1> DEFINE enough == {b \in BlockSizes : b < requested /\ n <= b}
<1> DEFINE chosen == OptimalBlock(requested, n)
<1>1. \A b \in BlockSizes : b \in Nat /\ b > 0
  BY BlockAssumption, SMT
<1>2. ASSUME enough = {} PROVE chosen \in BlockSizes /\ (chosen = requested \/ (chosen < requested /\ n <= chosen))
  <2>1. OptimalBlock(requested, n) = requested
    BY <1>2, Zenon DEF OptimalBlock
  <2>2. requested \in BlockSizes
    OBVIOUS
  <2>3. chosen = requested
    BY <2>1
  <2> HIDE DEF enough, chosen
  <2> QED BY <2>2, <2>3
<1>3. ASSUME enough # {} PROVE chosen \in BlockSizes /\ (chosen = requested \/ (chosen < requested /\ n <= chosen))
  <2>1. enough \subseteq Nat
    BY <1>1
  <2>2. \E b \in enough : \A a \in enough : b <= a
    <3> HIDE DEF enough
    <3> QED BY <1>3, <2>1, LeastNumber
  <2>3. (CHOOSE b \in enough : \A a \in enough : b <= a) \in enough
    <3> HIDE DEF enough
    <3> QED BY <2>2
  <2>4. OptimalBlock(requested, n) = CHOOSE b \in enough : \A a \in enough : b <= a
    BY <1>3, Zenon DEF OptimalBlock
  <2>5. chosen \in enough
    BY <2>3, <2>4, Zenon
  <2> QED BY <2>5, Zenon
<1> HIDE DEF enough, chosen
<1>4. chosen \in BlockSizes /\ (chosen = requested \/ (chosen < requested /\ n <= chosen))
  BY <1>2, <1>3, Zenon
<1>5. chosen \in Nat /\ chosen > 0
  BY <1>1, <1>4, Zenon
<1> QED BY <1>4, <1>5, Zenon DEF chosen

LEMMA OneShotPrefsAre ==
  ASSUME NEW p \in Choices, NEW n \in Nat
  PROVE  LET q == OneShotPrefs(n, p)
         IN  /\ q \in Preferences(Nat) /\ q.autoFlush = TRUE /\ q.block = OptimalBlock(p.block, n)
             /\ q.block \in Nat /\ q.block > 0
             /\ q.blockCrc = p.blockCrc /\ q.contentCrc = p.contentCrc
             /\ q.size = (IF p.size = 0 THEN 0 ELSE n) /\ q.size \in Nat /\ q.linked \in BOOLEAN
             /\ p \in Preferences(ContentSizes)
             /\ p.block \in BlockSizes /\ p.block \in Nat /\ p.block > 0
<1> DEFINE b == OptimalBlock(p.block, n)
<1> DEFINE s == IF p.size = 0 THEN 0 ELSE n
<1> DEFINE l == p.linked /\ n > b
<1> DEFINE q == OneShotPrefs(n, p)
<1>1. p \in Preferences(ContentSizes)
  BY ClassAssumption
<1>2. p.block \in BlockSizes /\ p.linked \in BOOLEAN
  BY <1>1 DEF Preferences
<1>3. b \in BlockSizes /\ b \in Nat /\ b > 0
  BY <1>2, OptimalBlockIs
<1>4. p.block \in Nat /\ p.block > 0
  <2>1. \A a \in BlockSizes : a \in Nat /\ a > 0
    BY BlockAssumption, SMT
  <2> QED BY <1>2, <2>1
<1>5. s \in Nat /\ l \in BOOLEAN
  BY <1>2, SMT
<1>6. q = [p EXCEPT !.size = s, !.block = b, !.autoFlush = TRUE, !.linked = l]
  BY DEF OneShotPrefs
<1> HIDE DEF b, s, l, q
<1>7. q \in Preferences(Nat)
  BY <1>1, <1>3, <1>5, <1>6, Zenon DEF Preferences
<1>8. /\ q.autoFlush = TRUE /\ q.block = b /\ q.blockCrc = p.blockCrc /\ q.contentCrc = p.contentCrc
      /\ q.size = s /\ q.linked = l
  BY <1>1, <1>6, SMT DEF Preferences
<1> QED BY <1>1, <1>2, <1>3, <1>4, <1>5, <1>7, <1>8 DEF b, s, q

\* The context on the stack, begun: it has no tmp buffer and needs none.
LEMMA OneShotBegunIs ==
  ASSUME NEW p \in Choices, NEW n \in Nat
  PROVE  LET c == OneShotBegun(n, p)
         IN  /\ c.prefs = OneShotPrefs(n, p) /\ c.mem = [a \in {} |-> Garbage] /\ c.tmpInSize = 0
             /\ c.total = 0 /\ c.dict = NoDict
<1> DEFINE q == OneShotPrefs(n, p)
<1> DEFINE c == OneShotBegun(n, p)
<1> DEFINE o == OneShotContext
<1>1. q.autoFlush = TRUE /\ q.linked \in BOOLEAN
  BY OneShotPrefsAre
<1>2. /\ o = [NewContext EXCEPT !.max = Window]
      /\ o.max = Window /\ o.mem = [a \in {} |-> Garbage] /\ o.total = 0 /\ o.dict = NoDict
  BY DEF OneShotContext, NewContext
<1>3. ~ NeedsBuffer(o, q)
  <2>1. RequiredBuffer(q) = IF q.linked THEN Window ELSE 0
    BY <1>1 DEF RequiredBuffer
  <2>2. Window \in Nat
    BY WindowAssumption, SMT
  <2>3. ~ (Window < RequiredBuffer(q))
    BY <1>1, <2>1, <2>2, SMT
  <2> QED BY <1>2, <2>3 DEF NeedsBuffer
<1> DEFINE t == IF q.size > 0 THEN 0 ELSE o.total
<1> DEFINE d == IF q.linked THEN NoDict ELSE o.dict
<1>4. c = [o EXCEPT !.cStage = 1, !.prefs = q, !.tmpIn = 0, !.tmpInSize = 0,
                    !.max = o.max, !.mem = o.mem, !.total = t, !.dict = d]
  BY <1>3 DEF OneShotBegun, Begin
<1>5. t = 0 /\ d = NoDict
  BY <1>2
<1> HIDE DEF t, d, q, c
<1>6. c.prefs = q /\ c.mem = o.mem /\ c.tmpInSize = 0 /\ c.total = t /\ c.dict = d
  BY <1>4, Zenon DEF OneShotContext, NewContext
<1> QED BY <1>2, <1>5, <1>6 DEF c, q

\* The n bytes are compressed where they lie.
LEMMA OneShotDirect ==
  ASSUME NEW p \in Choices, NEW n \in Nat
  PROVE  LET c == OneShotBegun(n, p)
         IN  Filled(c, n) = 0 /\ Direct(c, n) = n /\ Left(c, n) = 0 /\ ~ Completes(c, n)
<1> DEFINE c == OneShotBegun(n, p)
<1>1. c.tmpInSize = 0 /\ c.prefs.autoFlush
  <2>1. c.tmpInSize = 0 /\ c.prefs = OneShotPrefs(n, p)
    BY OneShotBegunIs
  <2>2. OneShotPrefs(n, p).autoFlush = TRUE
    BY OneShotPrefsAre
  <2> QED BY <2>1, <2>2
<1> HIDE DEF c
<1>2. ~ (c.tmpInSize > 0)
  BY <1>1, SMT
<1>3. Filled(c, n) = 0
  BY <1>2 DEF Filled
<1>4. Direct(c, n) = n - 0
  BY <1>1, <1>3 DEF Direct
<1>5. Left(c, n) = n - 0 - n
  <2>1. Direct(c, n) = n
    BY <1>4, SMT
  <2> QED BY <1>3, <2>1 DEF Left
<1>6. ~ Completes(c, n)
  BY <1>2 DEF Completes
<1> QED BY <1>3, <1>4, <1>5, <1>6, SMT DEF c

LEMMA OneShotFill ==
  ASSUME NEW p \in Choices, NEW n \in Nat
  PROVE  LET c == OneShotBegun(n, p)
             e == AfterTmpBlock(c, 0, n)
         IN  /\ DOMAIN e.mem = {} /\ e.tmpInSize = 0 /\ e.dict = NoDict /\ e.prefs = c.prefs
             /\ e.total = c.total
             /\ e = [c EXCEPT !.mem = e.mem, !.tmpInSize = 0]
<1> DEFINE c == OneShotBegun(n, p)
<1> DEFINE e == AfterTmpBlock(c, 0, n)
<1> DEFINE m == Store(c.mem, c.tmpIn + c.tmpInSize, Positions(0, 0))
<1>1. Filled(c, n) = 0 /\ ~ Completes(c, n)
  BY OneShotDirect
<1>2. e = [c EXCEPT !.mem = m, !.tmpInSize = c.tmpInSize + 0]
  BY <1>1 DEF AfterTmpBlock, AfterFill, Gather
<1>3. /\ c.mem = [a \in {} |-> Garbage] /\ c.tmpInSize = 0 /\ c.dict = NoDict /\ 0 + 0 = 0
  BY OneShotBegunIs, SMT
<1>4. DOMAIN m = {}
  BY <1>3, StoreDomain
<1>5. e = [c EXCEPT !.mem = m, !.tmpInSize = 0]
  BY <1>2, <1>3
<1>6. /\ "mem" \in DOMAIN c /\ "tmpInSize" \in DOMAIN c /\ "dict" \in DOMAIN c /\ "prefs" \in DOMAIN c
      /\ "total" \in DOMAIN c
  BY DEF OneShotBegun, Begin, OneShotContext, NewContext
<1> HIDE DEF c, m, e
<1>7. e.mem = m /\ e.tmpInSize = 0 /\ e.dict = c.dict /\ e.prefs = c.prefs /\ e.total = c.total
  BY <1>5, <1>6, Zenon
<1> QED BY <1>3, <1>4, <1>5, <1>7, Zenon DEF c, e

\* Its blocks are those of n bytes at the positions from 0 on.
LEMMA OneShotBlocks ==
  ASSUME NEW p \in Choices, NEW n \in Nat
  PROVE  LET q      == OneShotPrefs(n, p)
             blocks == UpdateBlocks(OneShotBegun(n, p), 0, n)
         IN  /\ CarriedBy(blocks) = n /\ Chained(blocks, q.block, 0)
             /\ Len(blocks) \in Nat /\ (Len(blocks) > 0 => (Len(blocks) - 1) * q.block < n)
<1> DEFINE q == OneShotPrefs(n, p)
<1> DEFINE c == OneShotBegun(n, p)
<1> DEFINE B == q.block
<1> DEFINE m == (n + B - 1) \div B
<1> DEFINE e == AfterTmpBlock(c, 0, n)
<1> DEFINE direct == DirectBlocks(c, 0, n)
<1> DEFINE blocks == UpdateBlocks(c, 0, n)
<1>1. B \in Nat /\ B > 0 /\ q.linked \in BOOLEAN
  BY OneShotPrefsAre
<1>2. c.prefs = q
  BY OneShotBegunIs
<1>3. Filled(c, n) = 0 /\ Direct(c, n) = n /\ ~ Completes(c, n)
  BY OneShotDirect
<1>4. DOMAIN e.mem = {} /\ e.dict = NoDict /\ e.prefs = q
  BY <1>2, OneShotFill
<1>5. m \in Nat /\ n <= m * B /\ (n = 0 => m = 0) /\ (n > 0 => m > 0 /\ (m - 1) * B < n)
  BY <1>1, RoundedUp
<1>6. direct = [j \in 1..m |->
                  Block(e, Span("src", 0 + 0 + (j - 1) * B, Smaller(B, n - (j - 1) * B)),
                        IF j = 1 THEN e.dict ELSE Span("src", 0 + 0, (j - 1) * B))]
  BY <1>2, <1>3 DEF DirectBlocks
<1> HIDE DEF m, e, c, B
<1>7. ASSUME NEW j \in 1..m
      PROVE  InPlace(direct[j], 0 + (j - 1) * B, Smaller(B, n - (j - 1) * B))
  <2> DEFINE before == (j - 1) * B
  <2> DEFINE size == Smaller(B, n - before)
  <2> DEFINE b == direct[j]
  <2>1. j \in Nat /\ j - 1 \in Nat
    BY <1>5, SMT
  <2>2. before \in Nat /\ (j = 1 => before = 0)
    BY <1>1, <2>1, SMT
  <2>3. 0 + 0 + before = before /\ 0 + before = before /\ 0 + 0 = 0
    BY <2>2, SMT
  <2>4. b = Block(e, Span("src", 0 + 0 + before, size), IF j = 1 THEN e.dict ELSE Span("src", 0 + 0, before))
    BY <1>6
  <2> HIDE DEF before, size, b
  <2>5. b = Block(e, Span("src", before, size), IF j = 1 THEN e.dict ELSE Span("src", 0, before))
    BY <2>3, <2>4
  <2>6. b.data = Positions(before, size)
    BY <2>5 DEF Block, Bytes, Span
  <2>7. b.hist = Positions(before - Len(b.hist), Len(b.hist))
    <3>1. b.hist = IF q.linked THEN Bytes(e.mem, IF j = 1 THEN e.dict ELSE Span("src", 0, before)) ELSE << >>
      BY <1>4, <2>5 DEF Block
    <3>2. before \in Int
      BY <2>2, SMT
    <3>3. CASE ~ q.linked
      <4>1. b.hist = << >>
        BY <3>1, <3>3
      <4> QED BY <3>2, <4>1, NoHistoryInPlace
    <3>4. CASE q.linked /\ j = 1
      <4>1. b.hist = Peek(e.mem, 0, 0)
        BY <1>4, <3>1, <3>4 DEF Bytes, NoDict, Span
      <4>2. Peek(e.mem, 0, 0) = Positions(before - 0, 0)
        <5>1. 1..0 = {}
          BY SMT
        <5> QED BY <5>1, Zenon DEF Peek, Positions
      <4>3. 0 \in Nat
        BY SMT
      <4> QED BY <3>2, <4>1, <4>2, <4>3, HistoryInPlace
    <3>5. CASE q.linked /\ j # 1
      <4>1. b.hist = Positions(0, before)
        BY <3>1, <3>5 DEF Bytes, Span
      <4>2. before - before = 0
        BY <2>2, SMT
      <4> QED BY <2>2, <3>2, <4>1, <4>2, HistoryInPlace
    <3> QED BY <3>3, <3>4, <3>5
  <2>8. InPlace(b, before, size)
    BY <2>6, <2>7 DEF InPlace
  <2> QED BY <2>3, <2>8 DEF before, size, b
<1>8. DOMAIN direct = 1..m /\ Len(direct) = m
  <2>1. DOMAIN direct = 1..m
    BY <1>6
  <2>2. direct = [j \in 1..m |-> direct[j]]
    BY <1>6
  <2> HIDE DEF direct
  <2> QED BY <1>5, <2>1, <2>2, SMT
<1>9. blocks = direct
  <2>1. TmpBlocks(c, 0, n) = << >>
    BY <1>3 DEF TmpBlocks
  <2>2. direct \in Seq({direct[j] : j \in 1..m})
    <3>1. direct = [j \in 1..m |-> direct[j]]
      BY <1>6
    <3> HIDE DEF direct
    <3> QED BY <1>5, <3>1, SMT
  <2>3. << >> \o direct = direct
    <3> HIDE DEF direct
    <3> QED BY <2>2, SMT
  <2> QED BY <2>1, <2>3 DEF UpdateBlocks
<1>10. n > 0 => m > 0
  BY <1>5
<1> HIDE DEF direct, blocks
<1>11. m > 0 => (m - 1) * B < n
  <2>1. n = 0 \/ n > 0
    BY SMT
  <2> QED BY <1>5, <2>1
<1>12. m = 0 => n = 0
  <2>1. n = 0 \/ n > 0
    BY SMT
  <2>2. ~ (0 > 0)
    BY SMT
  <2> QED BY <1>5, <2>1, <2>2
<1>13. CarriedBy(direct) = n /\ Chained(direct, B, 0)
  <2>1. 0 \in Int
    BY SMT
  <2> QED BY <1>1, <1>5, <1>7, <1>8, <1>11, <1>12, <2>1, CutsAreChained
<1> QED BY <1>5, <1>8, <1>9, <1>11, <1>13 DEF blocks, direct, c, B

\* What the call leaves needs no tmp buffer.
LEMMA OneShotUpdatedIs ==
  ASSUME NEW p \in Choices, NEW n \in Nat
  PROVE  LET u == OneShotUpdated(n, p)
         IN  /\ u.tmpInSize = 0 /\ DOMAIN u.mem = {} /\ u.total = n /\ u.prefs = OneShotPrefs(n, p)
             /\ u.prefs.linked /\ u.dict.size > 0 => u.dict.in = "src"
             /\ ~ WrongSize(u)
<1> DEFINE q == OneShotPrefs(n, p)
<1> DEFINE c == OneShotBegun(n, p)
<1> DEFINE e == AfterTmpBlock(c, 0, n)
<1> DEFINE s == Span("src", 0 + 0, n)
<1> DEFINE f == IF n > 0 /\ c.prefs.linked THEN [e EXCEPT !.dict = s, !.tmpIn = 0] ELSE e
<1> DEFINE u == OneShotUpdated(n, p)
<1>1. /\ q.autoFlush = TRUE /\ q.size \in Nat /\ (q.size = 0 \/ q.size = n)
  BY OneShotPrefsAre
<1>2. c.prefs = q /\ c.total = 0
  BY OneShotBegunIs
<1>3. Filled(c, n) = 0 /\ Direct(c, n) = n /\ Left(c, n) = 0
  BY OneShotDirect
<1>4. /\ DOMAIN e.mem = {} /\ e.tmpInSize = 0 /\ e.dict = NoDict /\ e.prefs = q /\ e.total = 0
  BY <1>2, OneShotFill
<1>5. {"mem", "tmpInSize", "dict", "prefs", "total", "tmpIn"} \subseteq DOMAIN e
  <2>1. e = [c EXCEPT !.mem = e.mem, !.tmpInSize = 0]
    BY OneShotFill
  <2>2. {"mem", "tmpInSize", "dict", "prefs", "total", "tmpIn"} \subseteq DOMAIN c
    BY DEF OneShotBegun, Begin, OneShotContext, NewContext
  <2> HIDE DEF e, c
  <2> QED BY <2>1, <2>2
<1>6. u = [f EXCEPT !.tmpInSize = @ + 0, !.total = @ + n]
  BY <1>1, <1>2, <1>3, Zenon DEF OneShotUpdated, UpdateStable
<1> HIDE DEF e, c, u, q
<1>7. /\ DOMAIN f.mem = {} /\ f.tmpInSize = 0 /\ f.prefs = q /\ f.total = 0
      /\ f.dict = s \/ f.dict = NoDict
      /\ {"tmpInSize", "total"} \subseteq DOMAIN f
  BY <1>4, <1>5
<1> HIDE DEF f
<1>8. /\ u.mem = f.mem /\ u.tmpInSize = f.tmpInSize + 0 /\ u.prefs = f.prefs /\ u.total = f.total + n
      /\ u.dict = f.dict
  BY <1>6, <1>7
<1>9. 0 + 0 = 0 /\ 0 + n = n /\ ~ (0 > 0)
  BY SMT
<1>10. u.dict.size > 0 => u.dict.in = "src"
  <2>1. NoDict.size = 0 /\ s.in = "src"
    BY DEF NoDict, Span
  <2> HIDE DEF s
  <2> QED BY <1>7, <1>8, <1>9, <2>1
<1>11. ~ WrongSize(u)
  BY <1>1, <1>7, <1>8, <1>9 DEF WrongSize
<1> QED BY <1>7, <1>8, <1>9, <1>10, <1>11 DEF u, q

\* Bytes that fit into a block take one.
LEMMA FewParts ==
  ASSUME NEW n \in Nat, NEW b \in Nat, b > 0, n <= b
  PROVE  Parts(n, b) = IF n = 0 THEN 0 ELSE 1
<1> DEFINE d == n \div b
<1> DEFINE r == n % b
<1>1. d \in Nat /\ r \in Nat /\ r < b /\ n = d * b + r
  BY Division
<1>2. Parts(n, b) = d + (IF r > 0 THEN 1 ELSE 0)
  BY DEF Parts
<1> HIDE DEF d, r
<1>3. d = 0 \/ (d = 1 /\ r = 0)
  <2>1. ASSUME d > 1 PROVE FALSE
    <3>1. d * b >= 2 * b
      <4>1. d \in Int /\ 2 \in Int /\ 2 <= d
        BY <1>1, <2>1, SMT
      <4> QED BY <4>1, <1>1, ProductOrder, SMT
    <3>2. d * b \in Nat
      BY <1>1, SMT
    <3> DEFINE x == d * b
    <3>3. x >= 2 * b /\ x \in Nat /\ n = x + r
      BY <1>1, <3>1, <3>2
    <3> HIDE DEF x
    <3> QED BY <1>1, <3>3, SMT
  <2>2. ASSUME d = 1 PROVE r = 0
    <3>1. 1 * b = b
      BY SMT
    <3>2. n = b + r
      BY <1>1, <2>2, <3>1
    <3> QED BY <1>1, <3>2, SMT
  <2> QED BY <1>1, <2>1, <2>2, SMT
<1>4. CASE d = 0
  <2>1. 0 * b = 0
    BY SMT
  <2>2. n = r
    BY <1>1, <1>4, <2>1, SMT
  <2> QED BY <1>1, <1>2, <1>4, <2>2, SMT
<1>5. CASE d = 1 /\ r = 0
  <2>1. 1 * b = b
    BY SMT
  <2>2. n = b
    BY <1>1, <1>5, <2>1, SMT
  <2> QED BY <1>2, <1>5, <2>2, SMT
<1> QED BY <1>3, <1>4, <1>5

\* The caller's room is enough for the preferences the frame is written with.
LEMMA OneShotBounds ==
  ASSUME NEW p \in Choices, NEW n \in Nat
  PROVE  LET q     == OneShotPrefs(n, p)
             cap   == compressFrameBound(n, p)
             bound == compressBound_internal(n, q, 0)
         IN  /\ cap = maxFHSize + bound /\ compressFrameBound(n, q) = maxFHSize + bound
             /\ bound \in Nat
<1> DEFINE q == OneShotPrefs(n, p)
<1> DEFINE P == [p EXCEPT !.autoFlush = TRUE]
<1> DEFINE Q == [q EXCEPT !.autoFlush = TRUE]
<1> DEFINE b == q.block
<1> DEFINE a == p.block
<1> DEFINE x == BlockExtra(q)
<1> DEFINE F == FooterSize(q)
<1> DEFINE bound == compressBound_internal(n, q, 0)
<1>1. /\ q \in Preferences(Nat) /\ p \in Preferences(ContentSizes)
      /\ a \in Nat /\ a > 0 /\ b \in Nat /\ b > 0 /\ q.autoFlush = TRUE
      /\ q.blockCrc = p.blockCrc /\ q.contentCrc = p.contentCrc
      /\ a \in BlockSizes /\ b = OptimalBlock(a, n)
  BY OneShotPrefsAre
<1>2. /\ P.block = a /\ P.autoFlush = TRUE /\ P.blockCrc = q.blockCrc /\ P.contentCrc = q.contentCrc
      /\ Q.block = b /\ Q.autoFlush = TRUE /\ Q.blockCrc = q.blockCrc /\ Q.contentCrc = q.contentCrc
  <2>1. /\ {"block", "autoFlush", "blockCrc", "contentCrc"} \subseteq DOMAIN p
        /\ {"block", "autoFlush", "blockCrc", "contentCrc"} \subseteq DOMAIN q
    BY <1>1, SMT DEF Preferences
  <2> HIDE DEF q
  <2> QED BY <1>1, <2>1
<1>3. x \in Nat /\ F \in Nat
  BY Extras
<1>4. /\ BlockExtra(P) = x /\ BlockExtra(Q) = x /\ FooterSize(P) = F /\ FooterSize(Q) = F
  <2> HIDE DEF P, Q, q
  <2> QED BY <1>2 DEF BlockExtra, BlockCrcSize, FooterSize
<1>5. 0 \in Nat /\ n + 0 = n /\ 0 < a /\ 0 < b
  BY <1>1, SMT
<1> HIDE DEF P, Q, q, x, F, a, b, bound
<1>6. compressBound_internal(n, P, 0) = x * Parts(n, a) + n + F
  BY <1>1, <1>2, <1>4, <1>5, BoundWhenFlushed
<1>7. compressBound_internal(n, Q, 0) = x * Parts(n, b) + n + F
  BY <1>1, <1>2, <1>4, <1>5, BoundWhenFlushed
<1>8. bound = x * Parts(n, b) + n + F
  <2>1. q.block = b /\ BlockExtra(q) = x /\ FooterSize(q) = F
    BY DEF b, x, F
  <2> QED BY <1>1, <1>5, <2>1, BoundWhenFlushed DEF bound
<1>9. Parts(n, a) = Parts(n, b)
  <2>1. b = a \/ (b < a /\ n <= b)
    BY <1>1, OptimalBlockIs
  <2>2. CASE b = a
    BY <2>2
  <2>3. CASE b < a /\ n <= b
    <3>1. n <= a
      BY <1>1, <2>3, SMT
    <3> QED BY <1>1, <2>3, <3>1, FewParts
  <2> QED BY <2>1, <2>2, <2>3
<1>10. bound \in Nat
  <2>1. Parts(n, b) \in Nat
    <3>1. 0 \in Nat /\ (0 > 0 => (0 - 1) * b < 0) /\ 0 <= n
      BY SMT
    <3> QED BY <1>1, <3>1, PartsBounds
  <2>2. x * Parts(n, b) \in Nat
    BY <1>3, <2>1, SMT
  <2> DEFINE y == x * Parts(n, b)
  <2>3. y \in Nat /\ bound = y + n + F
    BY <1>8, <2>2
  <2> HIDE DEF y
  <2> QED BY <1>3, <2>3, SMT
<1>11. compressFrameBound(n, p) = maxFHSize + compressBound_internal(n, P, 0)
  BY DEF compressFrameBound, P
<1>12. compressFrameBound(n, q) = maxFHSize + compressBound_internal(n, Q, 0)
  BY DEF compressFrameBound, Q
<1>13. compressBound_internal(n, P, 0) = bound /\ compressBound_internal(n, Q, 0) = bound
  BY <1>6, <1>7, <1>8, <1>9
<1> QED BY <1>10, <1>11, <1>12, <1>13 DEF q, bound

\* lz4.frame.compress returns a whole frame, written into the room it allocated.
LEMMA OneShotRight ==
  ASSUME NEW p \in Choices, NEW n \in Nat
  PROVE  LET r == OneShotReturned(n, p)
         IN  /\ r.status = "ok" /\ r.parts = {"header", "blocks", "footer"}
             /\ r.blocks = UpdateBlocks(OneShotBegun(n, p), 0, n)
             /\ r.written <= r.cap
<1> DEFINE q == OneShotPrefs(n, p)
<1> DEFINE cap == compressFrameBound(n, p)
<1> DEFINE bound == compressBound_internal(n, q, 0)
<1> DEFINE blocks == UpdateBlocks(OneShotBegun(n, p), 0, n)
<1> DEFINE W == Written(q, blocks)
<1> DEFINE H == HeaderSize(q)
<1> DEFINE F == FooterSize(q)
<1> DEFINE B == q.block
<1> DEFINE body == H + W
<1>1. cap = maxFHSize + bound /\ compressFrameBound(n, q) = maxFHSize + bound /\ bound \in Nat
  BY OneShotBounds
<1>2. /\ B \in Nat /\ B > 0 /\ q.autoFlush = TRUE
  BY OneShotPrefsAre
<1>3. /\ CarriedBy(blocks) = n /\ Len(blocks) \in Nat /\ (Len(blocks) > 0 => (Len(blocks) - 1) * B < n)
  BY OneShotBlocks
<1>4. W = n + Len(blocks) * BlockExtra(q)
  BY <1>3, WrittenIs
<1>5. n + Len(blocks) * BlockExtra(q) + F <= bound /\ Len(blocks) * BlockExtra(q) \in Nat
  <2> DEFINE k == Len(blocks)
  <2>1. k \in Nat /\ (k > 0 => (k - 1) * B < n)
    BY <1>3
  <2>0. q.autoFlush \in BOOLEAN
    BY <1>2
  <2>2. 0 \in Nat /\ 0 < B /\ n <= n + 0 /\ q.autoFlush \in BOOLEAN
    <3> HIDE DEF B, q
    <3> QED BY <1>2, <2>0, SMT
  <2>3. q.block = B
    OBVIOUS
  <2> HIDE DEF k, B, q, bound
  <2>4. n + k * BlockExtra(q) + FooterSize(q) <= compressBound_internal(n, q, 0) /\ k * BlockExtra(q) \in Nat
    BY <1>2, <2>1, <2>2, <2>3, BoundHolds
  <2> QED BY <2>4 DEF k, bound
<1>6. H \in Nat /\ H <= 15 /\ maxFHSize = 19
  BY SMT DEF HeaderSize, maxFHSize
<1>7. F \in Nat
  BY Extras
<1> DEFINE y == Len(blocks) * BlockExtra(q)
<1>8. W = n + y /\ y \in Nat /\ n + y + F <= bound
  BY <1>4, <1>5
<1>9. ~ WrongSize(OneShotUpdated(n, p))
  BY OneShotUpdatedIs
<1>10. OneShotReturned(n, p) =
        IF \/ cap < compressFrameBound(n, q)
           \/ cap < maxFHSize
           \/ cap - H < bound
           \/ cap - body < F
        THEN Raised("tooSmall")
        ELSE IF WrongSize(OneShotUpdated(n, p)) THEN Raised("frameSize")
        ELSE Returned({"header", "blocks", "footer"}, cap, blocks, body + F)
  BY Zenon DEF OneShotReturned
<1>11. body = H + W
  OBVIOUS
<1> DEFINE bnd == compressFrameBound(n, q)
<1>12. cap = maxFHSize + bound /\ bnd = maxFHSize + bound
  BY <1>1
<1> HIDE DEF y, W, H, F, bound, cap, q, blocks, body, bnd
<1>13. /\ ~ (cap < bnd) /\ ~ (cap < maxFHSize)
       /\ ~ (cap - H < bound) /\ ~ (cap - body < F) /\ body + F <= cap
  BY <1>1, <1>6, <1>7, <1>8, <1>11, <1>12, SMT
<1>14. OneShotReturned(n, p) = Returned({"header", "blocks", "footer"}, cap, blocks, body + F)
  BY <1>9, <1>10, <1>13, Zenon DEF bnd
<1> HIDE DEF blocks
<1>15. /\ OneShotReturned(n, p).status = "ok"
       /\ OneShotReturned(n, p).parts = {"header", "blocks", "footer"}
       /\ OneShotReturned(n, p).blocks = blocks
       /\ OneShotReturned(n, p).written = body + F /\ OneShotReturned(n, p).cap = cap
  BY <1>14 DEF Returned
<1> QED BY <1>13, <1>15, Zenon DEF blocks

-----------------------------------------------------------------------------
(* Units added to a file.                                                  *)

LEMMA UnitTypes ==
  /\ \A s \in Nat : HeaderUnit(s) \in Units
  /\ EndUnit \in Units /\ SkippableUnit \in Units /\ TornUnit \in Units
  /\ \A d \in Seq(Int) : BlockUnit(d) \in Units
<1>1. << >> \in Seq(Int) /\ 0 \in Nat
  BY EmptySeq, SMT
<1>2. {"header", "block", "end", "skippable", "torn"} \subseteq UnitKinds
  BY DEF UnitKinds
<1> QED BY <1>1, <1>2, Zenon DEF Units, HeaderUnit, EndUnit, SkippableUnit, TornUnit, BlockUnit

\* What is added does not change how what was there is read.
LEMMA RowThen ==
  ASSUME NEW units \in Seq(Units), NEW t \in Seq(Units)
  PROVE  /\ units \o t \in Seq(Units) /\ Len(units \o t) = Len(units) + Len(t)
         /\ Len(units) \in Nat /\ Len(t) \in Nat
         /\ \A k \in 0 .. Len(units) : WholeTo(units \o t, k) = WholeTo(units, k)
         /\ WholeTo(units \o t, Len(units)) = Whole(units)
         /\ \A i \in 1 .. Len(t) : (units \o t)[Len(units) + i] = t[i]
<1>1. /\ units \o t \in Seq(Units) /\ Len(units \o t) = Len(units) + Len(t)
      /\ \A i \in 1 .. Len(units) : (units \o t)[i] = units[i]
      /\ \A i \in 1 .. Len(t) : (units \o t)[Len(units) + i] = t[i]
  BY Appended
<1>2. Len(units) \in Nat /\ Len(t) \in Nat /\ Len(units) \in 0 .. Len(units)
  BY LenProperties, SMT
<1>3. ASSUME NEW k \in 0 .. Len(units) PROVE WholeTo(units \o t, k) = WholeTo(units, k)
  <2>1. k \in Nat /\ \A j \in 1 .. k : j \in 1 .. Len(units)
    BY <1>2, SMT
  <2>2. \A j \in 1 .. k : (units \o t)[j] = units[j]
    BY <1>1, <2>1
  <2> QED BY <2>1, <2>2, WholeToSame
<1> QED BY <1>1, <1>2, <1>3, Zenon DEF Whole

\* The content is true as far as it goes.
TrueOut(w) == w.out = Positions(0, Len(w.out))

LEMMA WholeIs ==
  ASSUME NEW units \in Seq(Units)
  PROVE  Limitless(Whole(units)) /\ (TrueRow(units) => TrueOut(Whole(units)))
<1>1. Len(units) \in 0 .. Len(units)
  BY LenProperties, SMT
<1>2. Limitless(Whole(units))
  BY <1>1, WholeToLimitless DEF Whole
<1>3. TrueRow(units) => TrueOut(Whole(units))
  BY <1>1, Zenon DEF TrueRow, TrueTo, TrueOut, Whole
<1> QED BY <1>2, <1>3

\* Rows are true if they were, and what is added is.
LEMMA TrueThen ==
  ASSUME NEW units \in Seq(Units), NEW t \in Seq(Units), TrueRow(units),
         \A k \in 1 .. Len(t) : TrueOut(WholeTo(units \o t, Len(units) + k))
  PROVE  TrueRow(units \o t)
<1> DEFINE n == Len(units)
<1> DEFINE m == Len(t)
<1>1. n \in Nat /\ m \in Nat /\ Len(units \o t) = n + m
  BY RowThen, Zenon
<1>2. ASSUME NEW k \in 0 .. n + m PROVE TrueTo(units \o t, k)
  <2>1. CASE k \in 0 .. n
    <3>1. WholeTo(units \o t, k) = WholeTo(units, k)
      BY <2>1, RowThen
    <3> QED BY <2>1, <3>1, Zenon DEF TrueRow, TrueTo
  <2>2. CASE ~ (k \in 0 .. n)
    <3>1. k - n \in 1 .. m /\ n + (k - n) = k
      <4> HIDE DEF n, m
      <4> QED BY <1>1, <2>2, SMT
    <3>2. TrueOut(WholeTo(units \o t, n + (k - n)))
      BY <3>1
    <3> QED BY <3>1, <3>2, Zenon DEF TrueTo, TrueOut
  <2> QED BY <2>1, <2>2
<1>3. TrueRow(units \o t)
  <2> HIDE DEF n, m
  <2> QED BY <1>1, <1>2, Zenon DEF TrueRow
<1> QED BY <1>3

\* One unit more.
LEMMA OneMore ==
  ASSUME NEW units \in Seq(Units), NEW u \in Units
  PROVE  LET v == Onward(Whole(units), u)
         IN  /\ units \o << u >> \in Seq(Units) /\ Whole(units \o << u >>) = v
             /\ Limitless(v)
             /\ TrueRow(units) /\ v.out = Whole(units).out => TrueRow(units \o << u >>)
<1> DEFINE t == << u >>
<1> DEFINE n == Len(units)
<1> DEFINE v == Onward(Whole(units), u)
<1>1. t \in Seq(Units) /\ Len(t) = 1 /\ t[1] = u /\ 1 \in 1 .. 1
  BY SMT
<1> HIDE DEF t
<1>2. /\ units \o t \in Seq(Units) /\ Len(units \o t) = n + 1 /\ n \in Nat
      /\ WholeTo(units \o t, n) = Whole(units) /\ (units \o t)[n + 1] = u
  BY <1>1, RowThen, ZenonT(60)
<1>3. WholeTo(units \o t, n + 1) = v
  BY <1>2, WholeToNext
<1>4. Limitless(v)
  BY WholeIs, OnwardLimitless
<1>5. ASSUME TrueRow(units), v.out = Whole(units).out PROVE TrueRow(units \o t)
  <2>1. TrueOut(Whole(units))
    BY <1>5, WholeIs
  <2>2. TrueOut(v)
    BY <1>5, <2>1, Zenon DEF TrueOut
  <2>3. \A k \in 1 .. 1 : k = 1
    BY SMT
  <2>4. \A k \in 1 .. Len(t) : TrueOut(WholeTo(units \o t, n + k))
    BY <1>1, <1>3, <2>2, <2>3
  <2> QED BY <1>1, <1>5, <2>4, TrueThen
<1> QED BY <1>2, <1>3, <1>4, <1>5, Zenon DEF Whole, t

\* Behind an error there is nothing.
LEMMA ErrorRow ==
  ASSUME NEW units \in Seq(Units), NEW t \in Seq(Units), Whole(units).result = "error"
  PROVE  /\ units \o t \in Seq(Units) /\ Whole(units \o t) = Whole(units)
         /\ TrueRow(units) => TrueRow(units \o t)
<1> DEFINE n == Len(units)
<1> DEFINE m == Len(t)
<1>1. /\ units \o t \in Seq(Units) /\ Len(units \o t) = n + m /\ n \in Nat /\ m \in Nat
      /\ WholeTo(units \o t, n) = Whole(units)
  BY RowThen
<1>2. ASSUME NEW k \in 0 .. m PROVE WholeTo(units \o t, n + k) = Whole(units)
  <2>1. n \in 0 .. Len(units \o t) /\ n + k \in n .. Len(units \o t)
    <3> HIDE DEF n, m
    <3> QED BY <1>1, SMT
  <2>2. WholeTo(units \o t, n + k) = WholeTo(units \o t, n)
    BY <1>1, <2>1, ErrorStays
  <2> QED BY <1>1, <2>2
<1>3. Whole(units \o t) = Whole(units)
  <2>1. m \in 0 .. m
    BY <1>1, SMT
  <2> QED BY <1>1, <1>2, <2>1, Zenon DEF Whole
<1>4. ASSUME TrueRow(units) PROVE TrueRow(units \o t)
  <2>1. TrueOut(Whole(units))
    BY <1>4, WholeIs
  <2>2. \A k \in 1 .. m : k \in 0 .. m
    BY <1>1, SMT
  <2>3. \A k \in 1 .. Len(t) : TrueOut(WholeTo(units \o t, n + k))
    BY <1>2, <2>1, <2>2
  <2> QED BY <1>4, <2>3, TrueThen
<1> QED BY <1>1, <1>3, <1>4

\* A header begins a frame where one may begin.
LEMMA HeaderWritten ==
  ASSUME NEW units \in Seq(Units), NEW size \in Nat, Whole(units).result = "end"
  PROVE  LET row == units \o << HeaderUnit(size) >>
         IN  /\ row \in Seq(Units) /\ OpenAt(Whole(row), size, 0, Len(Whole(units).out))
             /\ TrueRow(units) => TrueRow(row)
<1> DEFINE w == Whole(units)
<1> DEFINE u == HeaderUnit(size)
<1> DEFINE r == Ready(w)
<1> DEFINE v == Onward(w, u)
<1>1. u \in Units /\ u.kind = "header" /\ u.size = size
  BY UnitTypes DEF HeaderUnit
<1>2. Limitless(w)
  BY WholeIs
<1>3. Limitless(r) /\ r.out = w.out /\ ~ r.open /\ r.result = "more" /\ v = Take(r, u)
  <2> HIDE DEF w, u
  <2> QED BY <1>2, ReadyIs DEF w
<1> HIDE DEF w, u, r, v
<1>4. Take(r, u) = BeginFrameOf(r, u)
  BY <1>1, <1>3 DEF Take
<1>5. r \in Decoders
  BY <1>3 DEF Limitless
<1>6. v.open /\ v.announced = size /\ v.count = 0 /\ v.out = r.out /\ v.result = r.result
  <2>1. v = BeginFrameOf(r, u)
    BY <1>3, <1>4
  <2>2. v.open /\ v.announced = u.size /\ v.count = 0 /\ v.out = r.out /\ v.result = r.result
    BY <1>1, <1>5, <2>1, BegunFields, Zenon
  <2> QED BY <1>1, <2>2
<1>7. /\ units \o << u >> \in Seq(Units) /\ Whole(units \o << u >>) = v
      /\ TrueRow(units) /\ v.out = w.out => TrueRow(units \o << u >>)
  BY <1>1, OneMore, Zenon DEF v, w
<1>8. OpenAt(v, size, 0, Len(w.out))
  BY <1>3, <1>6 DEF OpenAt
<1> QED BY <1>3, <1>6, <1>7, <1>8, Zenon DEF w, u

\* Nothing but a block or an end is read inside a frame, and neither outside.
LEMMA Misplaced ==
  ASSUME NEW units \in Seq(Units), NEW u \in Units,
         \/ u.kind \in {"header", "skippable"} /\ Whole(units).open /\ Whole(units).result = "more"
         \/ u.kind \in {"end", "block"} /\ Whole(units).result = "end"
  PROVE  /\ units \o << u >> \in Seq(Units) /\ Whole(units \o << u >>).result = "error"
         /\ TrueRow(units) => TrueRow(units \o << u >>)
<1> DEFINE w == Whole(units)
<1> DEFINE r == Ready(w)
<1> DEFINE v == Onward(w, u)
<1>1. Limitless(w)
  BY WholeIs
<1>2. /\ Limitless(r) /\ r.out = w.out /\ v = Take(r, u)
      /\ u.kind \in {"header", "skippable"} => r.open
      /\ u.kind \in {"end", "block"} => ~ r.open
  <2>1. /\ Limitless(r) /\ r.out = w.out
        /\ w.result = "end" => ~ r.open /\ r.result = "more"
        /\ w.result # "end" => r = w
        /\ v = IF w.result = "error" THEN w ELSE Take(r, u)
    <3> HIDE DEF w
    <3> QED BY <1>1, ReadyIs
  <2> HIDE DEF w, r, v
  <2>2. \/ u.kind \in {"header", "skippable"} /\ w.open /\ w.result = "more"
        \/ u.kind \in {"end", "block"} /\ w.result = "end"
    BY DEF w
  <2> QED BY <2>1, <2>2
<1> HIDE DEF w, r, v
<1>3. u.kind \in {"header", "skippable", "end", "block"}
  BY DEF w
<1>4. v = [r EXCEPT !.result = "error"]
  BY <1>2, <1>3 DEF Take
<1>5. r \in Decoders
  BY <1>2 DEF Limitless
<1>6. v.result = "error" /\ v.out = w.out
  BY <1>2, <1>4, <1>5, RefusedFields, Zenon
<1>7. /\ units \o << u >> \in Seq(Units) /\ Whole(units \o << u >>) = v
      /\ TrueRow(units) /\ v.out = w.out => TrueRow(units \o << u >>)
  BY OneMore, Zenon DEF v, w
<1> QED BY <1>6, <1>7

\* An end ends the frame, unless it announced another size.
LEMMA EndWritten ==
  ASSUME NEW units \in Seq(Units), NEW size, NEW count, NEW length,
         OpenAt(Whole(units), size, count, length)
  PROVE  LET row == units \o << EndUnit >>
         IN  /\ row \in Seq(Units) /\ Len(Whole(row).out) = length
             /\ Whole(row).result = IF size > 0 /\ size # count THEN "error" ELSE "end"
             /\ TrueRow(units) => TrueRow(row)
<1> DEFINE w == Whole(units)
<1> DEFINE u == EndUnit
<1> DEFINE v == Onward(w, u)
<1>1. u \in Units /\ u.kind = "end"
  BY UnitTypes DEF EndUnit
<1>2. Limitless(w)
  BY WholeIs
<1>3. w.open /\ w.result = "more" /\ w.announced = size /\ w.count = count /\ Len(w.out) = length
  BY DEF OpenAt
<1> HIDE DEF w, u
<1>4. v = Take(w, u)
  <2>1. Ready(w) = w
    BY <1>2, <1>3, ReadyIs
  <2>2. v = IF w.result = "error" THEN w ELSE Take(Ready(w), u)
    BY <1>2, ReadyIs, Zenon
  <2> HIDE DEF v
  <2> QED BY <1>3, <2>1, <2>2
<1> HIDE DEF v
<1>5. Take(w, u) = EndOfFrame(w)
  BY <1>1, <1>3 DEF Take
<1>6. w \in Decoders
  BY <1>2 DEF Limitless
<1>7. v.out = w.out /\ v.result = IF w.announced > 0 /\ w.announced # w.count THEN "error" ELSE "end"
  BY <1>4, <1>5, <1>6, EndedFields, Zenon
<1>8. /\ units \o << u >> \in Seq(Units) /\ Whole(units \o << u >>) = v
      /\ TrueRow(units) /\ v.out = w.out => TrueRow(units \o << u >>)
  BY <1>1, OneMore, Zenon DEF v, w
<1> QED BY <1>3, <1>7, <1>8, Zenon DEF u

\* A skippable frame may stand between two frames.
LEMMA SkippableWritten ==
  ASSUME NEW units \in Seq(Units), Whole(units).result = "end"
  PROVE  LET row == units \o << SkippableUnit >>
         IN  /\ row \in Seq(Units) /\ Whole(row).result = "end" /\ Whole(row).out = Whole(units).out
             /\ TrueRow(units) => TrueRow(row)
<1> DEFINE w == Whole(units)
<1> DEFINE u == SkippableUnit
<1> DEFINE r == Ready(w)
<1> DEFINE v == Onward(w, u)
<1>1. u \in Units /\ u.kind = "skippable"
  BY UnitTypes DEF SkippableUnit
<1>2. Limitless(w)
  BY WholeIs
<1>3. Limitless(r) /\ r.out = w.out /\ ~ r.open /\ r.result = "more" /\ v = Take(r, u)
  <2> HIDE DEF w, u
  <2> QED BY <1>2, ReadyIs DEF w
<1> HIDE DEF w, u, r, v
<1>4. Take(r, u) = SkipFrame(r)
  BY <1>1, <1>3 DEF Take
<1>5. r \in Decoders
  BY <1>3 DEF Limitless
<1>6. v.result = "end" /\ v.out = w.out
  BY <1>3, <1>4, <1>5, SkippedFields, Zenon
<1>7. /\ units \o << u >> \in Seq(Units) /\ Whole(units \o << u >>) = v
      /\ TrueRow(units) /\ v.out = w.out => TrueRow(units \o << u >>)
  BY <1>1, OneMore, Zenon DEF v, w
<1> QED BY <1>6, <1>7, Zenon DEF w, u

\* What is left of a file that has been cut is as true as the whole was.
LEMMA CutRow ==
  ASSUME NEW units \in Seq(Units), NEW k \in 0 .. Len(units) - 1, NEW torn \in BOOLEAN
  PROVE  LET row == SubSeq(units, 1, k) \o (IF torn THEN << TornUnit >> ELSE << >>)
         IN  row \in Seq(Units) /\ (TrueRow(units) => TrueRow(row))
<1> DEFINE front == SubSeq(units, 1, k)
<1> DEFINE row == front \o (IF torn THEN << TornUnit >> ELSE << >>)
<1>1. Len(units) \in Nat /\ k \in Nat /\ k <= Len(units)
  BY LenProperties, SMT
<1>2. front \in Seq(Units) /\ Len(front) = k /\ \A i \in 1 .. k : front[i] = units[i]
  BY <1>1, SMT
<1>3. ASSUME TrueRow(units) PROVE TrueRow(front)
  <2>1. ASSUME NEW i \in 0 .. k PROVE TrueTo(front, i)
    <3>1. i \in Nat /\ i \in 0 .. Len(units) /\ \A j \in 1 .. i : j \in 1 .. k
      BY <1>1, SMT
    <3>2. WholeTo(front, i) = WholeTo(units, i)
      BY <1>2, <3>1, WholeToSame
    <3> QED BY <1>3, <3>1, <3>2, Zenon DEF TrueRow, TrueTo
  <2> HIDE DEF front
  <2> QED BY <1>2, <2>1, Zenon DEF TrueRow
<1> HIDE DEF front
<1>4. CASE torn
  <2>1. row = front \o << TornUnit >>
    BY <1>4
  <2>2. Onward(Whole(front), TornUnit).out = Whole(front).out
    <3>1. TornUnit.kind = "torn"
      BY DEF TornUnit
    <3> QED BY <1>2, <3>1, UnitTypes, WholeIs, OnwardLimitless, Zenon
  <2> HIDE DEF row
  <2>3. row \in Seq(Units) /\ (TrueRow(front) => TrueRow(row))
    BY <1>2, <2>1, <2>2, UnitTypes, OneMore
  <2> QED BY <1>3, <2>3 DEF row, front
<1>5. CASE ~ torn
  <2>1. row = front
    <3>1. row = front \o << >>
      BY <1>5
    <3>2. front \o << >> = front
      BY <1>2, SMT
    <3> QED BY <3>1, <3>2
  <2> HIDE DEF row
  <2> QED BY <1>2, <1>3, <2>1 DEF row, front
<1> QED BY <1>4, <1>5

-----------------------------------------------------------------------------
(* Blocks added to a file.                                                 *)

\* Blocks in a sequence, each with the content from where the last ended on.
Sequenced(blocks, start) ==
  /\ Len(blocks) \in Nat /\ DOMAIN blocks = 1 .. Len(blocks)
  /\ Carried(blocks, 0) = 0 /\ \A k \in 0 .. Len(blocks) : Carried(blocks, k) \in Nat
  /\ \A k \in 1 .. Len(blocks) :
       /\ Len(blocks[k].data) \in Nat
       /\ blocks[k].data = Positions(start + Carried(blocks, k - 1), Len(blocks[k].data))
       /\ Carried(blocks, k) = Carried(blocks, k - 1) + Len(blocks[k].data)

LEMMA ChainedIsSequenced ==
  ASSUME NEW blocks, NEW B \in Nat, NEW start \in Int, Chained(blocks, B, start),
         Len(blocks) \in Nat, DOMAIN blocks = 1 .. Len(blocks)
  PROVE  Sequenced(blocks, start)
<1> DEFINE m == Len(blocks)
<1> DEFINE w == [j \in DOMAIN blocks |-> Len(blocks[j].data)]
<1>1. ASSUME NEW k \in 1 .. m
      PROVE  Len(blocks[k].data) \in Nat /\ blocks[k].data = Positions(start + Carried(blocks, k - 1), Len(blocks[k].data))
  <2>1. Len(blocks[k].data) \in 1 .. B
    BY DEF Chained
  <2>2. \A i \in 1 .. B : i \in Nat
    BY SMT
  <2>3. blocks[k].data = Positions(start + Carried(blocks, k - 1), Len(blocks[k].data))
    BY DEF Chained, InPlace
  <2> QED BY <2>1, <2>2, <2>3, Zenon
<1>2. \A k : Carried(blocks, k) = Sum(w, k)
  BY DEF Carried
<1>3. \A k \in 1 .. m : w[k] = Len(blocks[k].data) /\ w[k] \in Nat
  BY <1>1
<1> HIDE DEF w
<1>4. \A k \in 0 .. m : Sum(w, k) \in Nat
  BY <1>3, SumGrows
<1>5. ASSUME NEW k \in 1 .. m PROVE Sum(w, k) = Sum(w, k - 1) + w[k]
  <2>0. m \in Nat
    OBVIOUS
  <2> HIDE DEF m
  <2>1. k - 1 \in Nat /\ (k - 1) + 1 = k /\ \A j \in 1 .. (k - 1) + 1 : j \in 1 .. m
    BY <2>0, SMT
  <2>2. \A j \in 1 .. (k - 1) + 1 : w[j] \in Int
    <3>1. \A n \in Nat : n \in Int
      BY SMT
    <3> QED BY <1>3, <2>1, <3>1, Zenon DEF m
  <2>3. Sum(w, (k - 1) + 1) = Sum(w, k - 1) + w[(k - 1) + 1]
    BY <2>1, <2>2, SumNext
  <2> QED BY <2>1, <2>3
<1>6. Sum(w, 0) = 0
  BY SumZero
<1>7. \A k \in 1 .. m : Carried(blocks, k) = Carried(blocks, k - 1) + Len(blocks[k].data)
  BY <1>2, <1>3, <1>5, Zenon
<1>8. Carried(blocks, 0) = 0 /\ \A k \in 0 .. m : Carried(blocks, k) \in Nat
  BY <1>2, <1>4, <1>6, Zenon
<1> HIDE DEF m
<1> QED BY <1>1, <1>7, <1>8, Zenon DEF Sequenced, m

\* What a call writes of blocks are blocks of the content from where they belong.
LEMMA PlacedIs ==
  ASSUME NEW blocks, NEW start \in Nat, NEW from \in Nat, Sequenced(blocks, start)
  PROVE  LET t == Placed(blocks, from)
         IN  /\ t \in Seq(Units) /\ Len(t) = Len(blocks)
             /\ \A k \in 1 .. Len(blocks) :
                  /\ t[k].kind = "block" /\ Len(t[k].data) = Len(blocks[k].data)
                  /\ t[k].data = Positions((from + start) + Carried(blocks, k - 1), Len(blocks[k].data))
<1> DEFINE m == Len(blocks)
<1> DEFINE t == Placed(blocks, from)
<1> DEFINE d(k) == [i \in DOMAIN blocks[k].data |-> blocks[k].data[i] + from]
<1>1. m \in Nat /\ DOMAIN blocks = 1 .. m
  BY DEF Sequenced
<1>2. t = [k \in 1 .. m |-> BlockUnit(d(k))]
  BY <1>1 DEF Placed
<1>3. ASSUME NEW k \in 1 .. m
      PROVE  /\ d(k) = Positions((from + start) + Carried(blocks, k - 1), Len(blocks[k].data))
             /\ d(k) \in Seq(Int) /\ Len(d(k)) = Len(blocks[k].data)
  <2> DEFINE l == Len(blocks[k].data)
  <2> DEFINE c == Carried(blocks, k - 1)
  <2> DEFINE a == start + c
  <2>1. k - 1 \in 0 .. m
    BY <1>1, SMT
  <2>2. l \in Nat /\ c \in Nat /\ blocks[k].data = Positions(start + c, l)
    BY <2>1 DEF Sequenced
  <2> DEFINE b == blocks[k].data
  <2> HIDE DEF l, c, b
  <2>3. b = Positions(start + c, l)
    BY <2>2 DEF b
  <2>4. DOMAIN b = 1 .. l
    BY <2>3 DEF Positions
  <2>5. ASSUME NEW i \in 1 .. l PROVE b[i] + from = ((from + start) + c) + i - 1
    <3>1. b[i] = (start + c) + i - 1
      BY <2>3 DEF Positions
    <3>2. i \in Nat
      BY <2>2, SMT
    <3> QED BY <2>2, <3>1, <3>2, SMT
  <2>6. d(k) = [i \in 1 .. l |-> b[i] + from]
    BY <2>4 DEF b
  <2> HIDE DEF d
  <2>7. d(k) = Positions((from + start) + c, l)
    BY <2>5, <2>6 DEF Positions
  <2>8. Positions((from + start) + c, l) \in Seq(Int) /\ Len(Positions((from + start) + c, l)) = l
    <3>1. (from + start) + c \in Int
      BY <2>2, SMT
    <3> QED BY <2>2, <3>1, SMT DEF Positions
  <2> QED BY <2>7, <2>8 DEF l, c
<1> HIDE DEF d, m, t
<1>4. \A k \in 1 .. m : t[k] = BlockUnit(d(k))
  BY <1>2
<1>5. \A k \in 1 .. m : t[k] \in Units
  BY <1>3, <1>4, UnitTypes
<1>6. t \in Seq(Units) /\ Len(t) = m
  <2>1. DOMAIN t = 1 .. m /\ t = [k \in 1 .. m |-> t[k]]
    BY <1>2, <1>4
  <2> QED BY <1>1, <1>5, <2>1, SMT
<1>7. ASSUME NEW k \in 1 .. m
      PROVE  /\ t[k].kind = "block" /\ Len(t[k].data) = Len(blocks[k].data)
             /\ t[k].data = Positions((from + start) + Carried(blocks, k - 1), Len(blocks[k].data))
  <2>0. \A e : BlockUnit(e).kind = "block" /\ BlockUnit(e).data = e
    BY DEF BlockUnit
  <2>1. t[k].kind = "block" /\ t[k].data = d(k)
    BY <1>4, <2>0, Zenon
  <2> QED BY <1>3, <2>1 DEF m
<1> QED BY <1>6, <1>7 DEF m, t

\* One run of positions behind another.
LEMMA PositionsThen ==
  ASSUME NEW a \in Nat, NEW n \in Nat
  PROVE  Positions(0, a) \o Positions(a, n) = Positions(0, a + n)
<1> DEFINE s == Positions(0, a)
<1> DEFINE t == Positions(a, n)
<1> DEFINE r == Positions(0, a + n)
<1>1. s \in Seq(Int) /\ Len(s) = a /\ t \in Seq(Int) /\ Len(t) = n
  BY SMT DEF Positions
<1>2. r \in Seq(Int) /\ Len(r) = a + n
  BY SMT DEF Positions
<1>3. \A i \in 1 .. a : s[i] = 0 + i - 1
  BY DEF Positions
<1>4. \A i \in 1 .. n : t[i] = a + i - 1
  BY DEF Positions
<1>5. \A i \in 1 .. a + n : r[i] = 0 + i - 1
  BY DEF Positions
<1> HIDE DEF s, t, r
<1>6. s \o t \in Seq(Int) /\ Len(s \o t) = a + n
  BY <1>1, SMTT(60)
<1>7. ASSUME NEW i \in 1 .. a + n PROVE (s \o t)[i] = r[i]
  <2>1. CASE i \in 1 .. a
    <3>1. (s \o t)[i] = s[i]
      BY <1>1, <2>1, SMT
    <3> QED BY <1>3, <1>5, <2>1, <3>1
  <2>2. CASE ~ (i \in 1 .. a)
    <3>1. i - a \in 1 .. n /\ i \in Nat
      BY <2>2, SMT
    <3>2. (s \o t)[i] = t[i - a]
      <4>1. \A j \in 1 .. n : (s \o t)[a + j] = t[j]
        BY <1>1, Appended
      <4>2. a + (i - a) = i
        BY <3>1, SMT
      <4> QED BY <3>1, <4>1, <4>2
    <3>3. (s \o t)[i] = a + (i - a) - 1
      BY <1>4, <3>1, <3>2
    <3>4. r[i] = 0 + i - 1
      BY <1>5
    <3> QED BY <3>1, <3>3, <3>4, SMT
  <2> QED BY <2>1, <2>2
<1>8. s \o t = r
  BY <1>2, <1>6, <1>7, SeqEqual
<1> QED BY <1>8 DEF s, t, r

\* Blocks in their place make the content in a frame that much longer.
LEMMA BlocksWritten ==
  ASSUME NEW units \in Seq(Units), NEW blocks, NEW start \in Nat, NEW from \in Nat,
         NEW size, NEW count \in Nat, Sequenced(blocks, start),
         OpenAt(Whole(units), size, count, from + start)
  PROVE  LET row == units \o Placed(blocks, from)
         IN  /\ row \in Seq(Units)
             /\ OpenAt(Whole(row), size, count + CarriedBy(blocks), from + start + CarriedBy(blocks))
             /\ TrueRow(units) => TrueRow(row)
<1> DEFINE m == Len(blocks)
<1> DEFINE n == Len(units)
<1> DEFINE t == Placed(blocks, from)
<1> DEFINE row == units \o t
<1> DEFINE at == from + start
<1> DEFINE v(k) == WholeTo(row, n + k)
<1> DEFINE c(k) == Carried(blocks, k)
<1>1. /\ m \in Nat /\ c(0) = 0 /\ (\A k \in 0 .. m : c(k) \in Nat)
      /\ \A k \in 1 .. m : Len(blocks[k].data) \in Nat /\ c(k) = c(k - 1) + Len(blocks[k].data)
  BY DEF Sequenced
<1>2. /\ t \in Seq(Units) /\ Len(t) = m
      /\ \A k \in 1 .. m :
           /\ t[k].kind = "block" /\ Len(t[k].data) = Len(blocks[k].data)
           /\ t[k].data = Positions(at + c(k - 1), Len(blocks[k].data))
  BY PlacedIs, Zenon
<1> HIDE DEF t, m, c
<1>3. /\ row \in Seq(Units) /\ Len(row) = n + m /\ n \in Nat
      /\ WholeTo(row, n) = Whole(units) /\ \A i \in 1 .. m : row[n + i] = t[i]
  BY <1>2, RowThen, Zenon
<1> HIDE DEF row
<1>4. at \in Nat
  BY SMT
<1> HIDE DEF at, n
<1>5. OpenAt(Whole(units), size, count, at)
  BY DEF at
<1> DEFINE Good == {k \in Nat : k <= m => /\ OpenAt(v(k), size, count + c(k), at + c(k))
                                          /\ TrueRow(units) => TrueOut(v(k))}
<1>6. 0 \in Good
  <2>1. n + 0 = n /\ count + 0 = count /\ at + 0 = at
    BY <1>3, <1>4, SMT
  <2>2. v(0) = Whole(units)
    BY <1>3, <2>1
  <2>3. TrueRow(units) => TrueOut(Whole(units))
    BY WholeIs
  <2>4. OpenAt(v(0), size, count + c(0), at + c(0))
    BY <1>1, <1>5, <2>1, <2>2
  <2>5. 0 \in Nat
    BY SMT
  <2> HIDE DEF v
  <2> QED BY <2>2, <2>3, <2>4, <2>5
<1>7. ASSUME NEW k \in Good \cap Nat PROVE k + 1 \in Good
  <2>1. SUFFICES ASSUME k + 1 <= m
                 PROVE  /\ OpenAt(v(k + 1), size, count + c(k + 1), at + c(k + 1))
                        /\ TrueRow(units) => TrueOut(v(k + 1))
    <3>1. k + 1 \in Nat
      BY SMT
    <3> HIDE DEF v
    <3> QED BY <3>1
  <2>2. /\ k \in Nat /\ k <= m /\ k + 1 \in 1 .. m /\ k \in 0 .. m /\ (k + 1) - 1 = k
        /\ n + (k + 1) = (n + k) + 1 /\ n + k \in Nat /\ n + k \in 0 .. n + m
    BY <1>1, <1>3, <2>1, SMT
  <2> DEFINE w == v(k)
  <2> DEFINE u == t[k + 1]
  <2> DEFINE e == v(k + 1)
  <2> DEFINE l == Len(blocks[k + 1].data)
  <2>3. OpenAt(w, size, count + c(k), at + c(k)) /\ (TrueRow(units) => TrueOut(w))
    BY <2>2
  <2>4. Limitless(w)
    BY <1>3, <2>2, WholeToLimitless
  <2>5. u \in Units /\ u.kind = "block" /\ Len(u.data) = l /\ u.data = Positions(at + c(k), l)
    BY <1>2, <2>2, ElementOfSeq
  <2>6. e = Onward(w, u)
    BY <1>3, <2>2, WholeToNext, ZenonT(60)
  <2>7. c(k) \in Nat /\ l \in Nat /\ c(k + 1) = c(k) + l
    BY <1>1, <2>2
  <2> HIDE DEF w, u, e, l, v
  <2>8. w.open /\ w.result = "more" /\ w.announced = size /\ w.count = count + c(k) /\ Len(w.out) = at + c(k)
    BY <2>3 DEF OpenAt
  <2>9. e = Take(w, u)
    <3>1. Ready(w) = w
      BY <2>4, <2>8, ReadyIs
    <3>2. e = IF w.result = "error" THEN w ELSE Take(Ready(w), u)
      BY <2>4, <2>6, ReadyIs, Zenon
    <3> QED BY <2>8, <3>1, <3>2
  <2>10. /\ e.out = w.out \o u.data /\ e.open /\ e.announced = w.announced
         /\ e.count = w.count + Len(u.data) /\ e.result = w.result
    BY <2>4, <2>5, <2>8, <2>9, TakeLimitless, Zenon
  <2>11. Len(e.out) = (at + c(k)) + l
    <3>1. w.out \in Seq(Int) /\ u.data \in Seq(Int)
      BY <2>4, <2>5, UnitIs, DecoderIs DEF Limitless
    <3>2. Len(e.out) = Len(w.out) + Len(u.data)
      BY <2>10, <3>1, Appended
    <3> QED BY <2>5, <2>8, <3>2
  <2>12. (at + c(k)) + l = at + c(k + 1) /\ (count + c(k)) + l = count + c(k + 1)
    BY <1>4, <2>7, SMT
  <2>13. OpenAt(e, size, count + c(k + 1), at + c(k + 1))
    BY <2>5, <2>8, <2>10, <2>11, <2>12 DEF OpenAt
  <2>14. ASSUME TrueRow(units) PROVE TrueOut(e)
    <3>1. w.out = Positions(0, at + c(k))
      BY <2>3, <2>8, <2>14 DEF TrueOut
    <3>2. at + c(k) \in Nat
      BY <1>4, <2>7, SMT
    <3>3. e.out = Positions(0, (at + c(k)) + l)
      BY <2>5, <2>7, <2>10, <3>1, <3>2, PositionsThen
    <3> QED BY <2>11, <3>3 DEF TrueOut
  <2> QED BY <2>13, <2>14 DEF e
<1>8. Nat \subseteq Good
  <2> HIDE DEF Good
  <2> QED BY <1>6, <1>7, SetInduction
<1>9. \A k \in 0 .. m : k \in Nat /\ k <= m
  BY <1>1, SMT
<1>10. \A k \in 0 .. m : OpenAt(v(k), size, count + c(k), at + c(k)) /\ (TrueRow(units) => TrueOut(v(k)))
  <2> HIDE DEF v
  <2> QED BY <1>8, <1>9
<1>11. m \in 0 .. m /\ \A k \in 1 .. m : k \in 0 .. m
  BY <1>1, SMT
<1>12. v(m) = Whole(row) /\ c(m) = CarriedBy(blocks)
  BY <1>3, Zenon DEF Whole, CarriedBy, c, m
<1>13. OpenAt(Whole(row), size, count + CarriedBy(blocks), at + CarriedBy(blocks))
  <2> HIDE DEF v
  <2> QED BY <1>10, <1>11, <1>12
<1>14. ASSUME TrueRow(units) PROVE TrueRow(row)
  <2>1. \A k \in 1 .. Len(t) : TrueOut(WholeTo(units \o t, Len(units) + k))
    BY <1>2, <1>10, <1>11, <1>14, Zenon DEF row, n
  <2> QED BY <1>2, <1>14, <2>1, TrueThen DEF row
<1> QED BY <1>3, <1>13, <1>14 DEF row, t, at

-----------------------------------------------------------------------------
(* What the calls write.                                                   *)

\* The blocks of a compressUpdate are a sequence.
LEMMA UpdateBlocksDomain ==
  ASSUME NEW c, NEW from, NEW n, c.prefs.block \in Nat, c.prefs.block > 0, Direct(c, n) \in Nat
  PROVE  LET blocks == UpdateBlocks(c, from, n)
         IN  Len(blocks) \in Nat /\ DOMAIN blocks = 1 .. Len(blocks)
<1> DEFINE B == c.prefs.block
<1> DEFINE D == Direct(c, n)
<1> DEFINE m == (D + B - 1) \div B
<1> DEFINE s == TmpBlocks(c, from, n)
<1> DEFINE t == DirectBlocks(c, from, n)
<1>1. m \in Nat
  BY RoundedUp
<1>2. t = [j \in 1 .. m |-> t[j]]
  BY DEF DirectBlocks
<1>3. PICK b : s = << >> \/ s = << b >>
  BY DEF TmpBlocks
<1> DEFINE S == {t[j] : j \in 1 .. m} \cup {b}
<1> HIDE DEF s, t, m
<1>4. t \in Seq(S)
  <2>1. \A j \in 1 .. m : t[j] \in S
    OBVIOUS
  <2> HIDE DEF S
  <2> QED BY <1>1, <1>2, <2>1, SMT
<1>5. s \in Seq(S)
  <2>1. b \in S
    OBVIOUS
  <2> HIDE DEF S
  <2>2. << b >> \in Seq(S)
    BY <2>1, SMT
  <2>3. << >> \in Seq(S)
    BY EmptySeq
  <2> QED BY <1>3, <2>2, <2>3
<1>6. UpdateBlocks(c, from, n) = s \o t
  BY DEF UpdateBlocks, s, t
<1> HIDE DEF S
<1>7. s \o t \in Seq(S)
  BY <1>4, <1>5, Appended
<1> DEFINE z == s \o t
<1>8. z \in Seq(S)
  BY <1>7
<1> HIDE DEF z
<1>9. Len(z) \in Nat /\ DOMAIN z = 1 .. Len(z)
  BY <1>8, LenProperties
<1> QED BY <1>6, <1>9 DEF z

\* What compress writes when it is not refused.
LEMMA CompressedBlocks ==
  ASSUME IInv, has, started, NEW n \in Nat, ~ ChunkRefused(cctx, n)
  PROVE  LET blocks == UpdateBlocks(cctx, accepted, n)
             next   == Update(cctx, accepted, n)
         IN  /\ accepted - cctx.tmpInSize \in Nat /\ Sequenced(blocks, accepted - cctx.tmpInSize)
             /\ CarriedBy(blocks) = UpdateBytes(cctx, n) /\ UpdateBytes(cctx, n) \in Nat
             /\ cctx.cStage = 1 /\ next.cStage = 1 /\ next.prefs = cctx.prefs
             /\ next.tmpInSize \in Nat /\ UpdateBytes(cctx, n) + next.tmpInSize = cctx.tmpInSize + n
             /\ next.total = cctx.total + n
<1> DEFINE blocks == UpdateBlocks(cctx, accepted, n)
<1> DEFINE next == Update(cctx, accepted, n)
<1>1. cctx.cStage = 1
  BY DEF ChunkRefused
<1>2. Sound(cctx, accepted)
  BY <1>1 DEF IInv, Held
<1>3. /\ ContentSizes \in SUBSET Nat /\ IsContext(cctx, ContentSizes) /\ cctx.tmpInSize \in Nat /\ accepted \in Nat
  BY Types
<1>4. accepted - cctx.tmpInSize \in Nat
  <2>1. cctx.tmpInSize <= accepted
    BY <1>2 DEF Sound, WaitingIs
  <2> QED BY <1>3, <2>1, SMT
<1>5. /\ IsContext(next, ContentSizes) /\ next.cStage = 1 /\ next.prefs = cctx.prefs /\ next.total = cctx.total + n
      /\ UpdateBytes(cctx, n) \in Nat /\ UpdateBytes(cctx, n) + next.tmpInSize = cctx.tmpInSize + n
  BY <1>1, <1>2, <1>3, UpdateSound
<1>6. next.tmpInSize \in Nat
  <2> HIDE DEF next
  <2> QED BY <1>3, <1>5, ContextTypes
<1>7. /\ CarriedBy(blocks) = UpdateBytes(cctx, n) /\ Chained(blocks, cctx.prefs.block, accepted - cctx.tmpInSize)
  BY <1>2, <1>3, UpdateBlocksChained
<1>8. cctx.prefs.block \in Nat /\ cctx.prefs.block > 0
  BY <1>3, ContextTypes, PreferenceTypes
<1>9. Direct(cctx, n) \in Nat
  BY <1>2, <1>3, AfterFillMem
<1>10. Len(blocks) \in Nat /\ DOMAIN blocks = 1 .. Len(blocks)
  BY <1>8, <1>9, UpdateBlocksDomain
<1>11. Sequenced(blocks, accepted - cctx.tmpInSize)
  <2>1. accepted - cctx.tmpInSize \in Int
    BY <1>4, SMT
  <2> HIDE DEF blocks
  <2> QED BY <1>7, <1>8, <1>10, <2>1, ChainedIsSequenced
<1> QED BY <1>1, <1>4, <1>5, <1>6, <1>7, <1>11

LEMMA NoBlocks ==
  /\ Len(<< >>) = 0 /\ DOMAIN << >> = 1 .. Len(<< >>) /\ CarriedBy(<< >>) = 0
  /\ \A start \in Int : Sequenced(<< >>, start)
  /\ \A from : Placed(<< >>, from) = << >>
<1>1. Len(<< >>) = 0 /\ DOMAIN << >> = 1 .. 0 /\ 0 \in Nat /\ 1 .. 0 = {}
  BY SMT
<1>2. CarriedBy(<< >>) = 0 /\ \A B, start : Chained(<< >>, B, start)
  BY NoBlocksChained
<1>3. \A start \in Int : Sequenced(<< >>, start)
  BY <1>1, <1>2, ChainedIsSequenced
<1>4. ASSUME NEW from PROVE Placed(<< >>, from) = << >>
  <2> DEFINE t == Placed(<< >>, from)
  <2>1. DOMAIN t = {}
    BY <1>1 DEF Placed
  <2>2. t = [k \in {} |-> t[k]]
    BY <1>1 DEF Placed
  <2>3. << >> = [k \in {} |-> t[k]]
    BY SMT
  <2> QED BY <2>2, <2>3
<1> QED BY <1>1, <1>2, <1>3, <1>4

\* What flush writes.
LEMMA FlushedBlocks ==
  ASSUME IInv, has
  PROVE  LET blocks == FlushBlocks(cctx)
         IN  /\ cctx.cStage = 1 /\ started =>
                  /\ accepted - cctx.tmpInSize \in Nat /\ Sequenced(blocks, accepted - cctx.tmpInSize)
                  /\ CarriedBy(blocks) = cctx.tmpInSize
             /\ ~ (cctx.cStage = 1 /\ started) => blocks = << >>
<1> DEFINE blocks == FlushBlocks(cctx)
<1>1. /\ ContentSizes \in SUBSET Nat /\ IsContext(cctx, ContentSizes) /\ cctx.tmpInSize \in Nat /\ accepted \in Nat
  BY Types
<1>2. ASSUME cctx.cStage = 1, started
      PROVE  /\ accepted - cctx.tmpInSize \in Nat /\ Sequenced(blocks, accepted - cctx.tmpInSize)
             /\ CarriedBy(blocks) = cctx.tmpInSize
  <2>1. Sound(cctx, accepted)
    BY <1>2 DEF IInv, Held
  <2>2. accepted - cctx.tmpInSize \in Nat
    <3>1. cctx.tmpInSize <= accepted
      BY <2>1 DEF Sound, WaitingIs
    <3> QED BY <1>1, <3>1, SMT
  <2>3. CarriedBy(blocks) = cctx.tmpInSize /\ Chained(blocks, cctx.prefs.block, accepted - cctx.tmpInSize)
    BY <1>1, <2>1, FlushBlocksChained
  <2>4. cctx.prefs.block \in Nat
    BY <1>1, ContextTypes, PreferenceTypes
  <2>5. Len(blocks) \in Nat /\ DOMAIN blocks = 1 .. Len(blocks)
    <3>1. \A b : DOMAIN << b >> = 1 .. Len(<< b >>) /\ Len(<< b >>) \in Nat
      BY SMT
    <3>2. DOMAIN << >> = 1 .. Len(<< >>) /\ Len(<< >>) \in Nat
      BY SMT
    <3> QED BY <3>1, <3>2, Zenon DEF FlushBlocks
  <2>6. accepted - cctx.tmpInSize \in Int
    BY <2>2, SMT
  <2> HIDE DEF blocks
  <2> QED BY <2>2, <2>3, <2>4, <2>5, <2>6, ChainedIsSequenced
<1>3. ASSUME ~ (cctx.cStage = 1 /\ started) PROVE blocks = << >>
  <2>1. cctx.tmpInSize = 0
    BY <1>3 DEF IInv, Held
  <2> QED BY <2>1 DEF FlushBlocks
<1> QED BY <1>2, <1>3

\* What lz4.frame.compress writes.
LEMMA OneShotSequenced ==
  ASSUME NEW p \in Choices, NEW n \in Nat
  PROVE  Sequenced(UpdateBlocks(OneShotBegun(n, p), 0, n), 0)
<1> DEFINE c == OneShotBegun(n, p)
<1> DEFINE q == OneShotPrefs(n, p)
<1> DEFINE blocks == UpdateBlocks(c, 0, n)
<1>1. q.block \in Nat /\ q.block > 0
  BY OneShotPrefsAre
<1>2. c.prefs = q /\ Direct(c, n) = n
  BY OneShotBegunIs, OneShotDirect
<1>3. Chained(blocks, q.block, 0)
  BY OneShotBlocks
<1> HIDE DEF c, q
<1>4. Len(blocks) \in Nat /\ DOMAIN blocks = 1 .. Len(blocks)
  BY <1>1, <1>2, UpdateBlocksDomain
<1>5. 0 \in Int
  BY SMT
<1> HIDE DEF blocks
<1>6. Sequenced(blocks, 0)
  BY <1>1, <1>3, <1>4, <1>5, ChainedIsSequenced
<1> QED BY <1>6 DEF blocks, c

\* What is written is units.
LEMMA UnitsOfIs ==
  ASSUME NEW r, NEW size \in Nat, NEW from \in Nat, NEW start \in Nat, Sequenced(r.blocks, start),
         NEW units \in Seq(Units)
  PROVE  units \o UnitsOf(r, size, from) \in Seq(Units)
<1> DEFINE t == UnitsOf(r, size, from)
<1> DEFINE b == Placed(r.blocks, from)
<1> DEFINE x == IF "header" \in r.parts THEN << HeaderUnit(size) >> ELSE << >>
<1> DEFINE y == IF "footer" \in r.parts THEN << EndUnit >> ELSE << >>
<1>1. t = (x \o b) \o y
  BY Zenon DEF UnitsOf
<1>2. b \in Seq(Units)
  BY PlacedIs
<1>3. << HeaderUnit(size) >> \in Seq(Units) /\ << EndUnit >> \in Seq(Units) /\ << >> \in Seq(Units)
  <2>1. HeaderUnit(size) \in Units /\ EndUnit \in Units
    BY UnitTypes
  <2>2. \A u \in Units : << u >> \in Seq(Units)
    BY SMT
  <2> QED BY <2>1, <2>2, EmptySeq
<1>4. x \in Seq(Units) /\ y \in Seq(Units)
  BY <1>3, Zenon
<1> HIDE DEF t, b, x, y
<1>5. \A p \in Seq(Units), q \in Seq(Units) : p \o q \in Seq(Units)
  BY Appended
<1>6. t \in Seq(Units)
  BY <1>1, <1>2, <1>4, <1>5
<1> QED BY <1>5, <1>6 DEF t

\* The same for the parts a call returns.
LEMMA OnlyBlocks ==
  ASSUME NEW r, NEW size \in Nat, NEW from \in Nat, NEW start \in Nat, Sequenced(r.blocks, start),
         NEW units \in Seq(Units), r.parts = {"blocks"}
  PROVE  units \o UnitsOf(r, size, from) = units \o Placed(r.blocks, from)
<1> DEFINE b == Placed(r.blocks, from)
<1>1. UnitsOf(r, size, from) = (<< >> \o b) \o << >>
  <2>1. "header" \notin {"blocks"} /\ "footer" \notin {"blocks"}
    OBVIOUS
  <2> QED BY <2>1, Zenon DEF UnitsOf
<1>2. b \in Seq(Units)
  BY PlacedIs
<1> HIDE DEF b
<1>3. << >> \o b = b /\ b \o << >> = b
  BY <1>2, ConcatEmptySeq
<1> QED BY <1>1, <1>3 DEF b

LEMMA BlocksAndEnd ==
  ASSUME NEW r, NEW size \in Nat, NEW from \in Nat, NEW start \in Nat, Sequenced(r.blocks, start),
         NEW units \in Seq(Units), r.parts = {"blocks", "footer"}
  PROVE  units \o UnitsOf(r, size, from) = (units \o Placed(r.blocks, from)) \o << EndUnit >>
<1> DEFINE b == Placed(r.blocks, from)
<1> DEFINE e == << EndUnit >>
<1>1. UnitsOf(r, size, from) = (<< >> \o b) \o e
  <2>1. "header" \notin {"blocks", "footer"} /\ "footer" \in {"blocks", "footer"}
    OBVIOUS
  <2> QED BY <2>1, Zenon DEF UnitsOf
<1>2. b \in Seq(Units)
  BY PlacedIs
<1>3. e \in Seq(Units)
  <2>1. EndUnit \in Units
    BY UnitTypes
  <2> QED BY <2>1, SMT
<1> HIDE DEF b, e
<1>4. << >> \o b = b
  BY <1>2, ConcatEmptySeq
<1>5. units \o (b \o e) = (units \o b) \o e
  BY <1>2, <1>3, ConcatAssociative, SMTT(60)
<1> QED BY <1>1, <1>4, <1>5 DEF b, e

LEMMA WholeFrame ==
  ASSUME NEW r, NEW size \in Nat, NEW from \in Nat, NEW start \in Nat, Sequenced(r.blocks, start),
         NEW units \in Seq(Units), r.parts = {"header", "blocks", "footer"}
  PROVE  units \o UnitsOf(r, size, from) =
           ((units \o << HeaderUnit(size) >>) \o Placed(r.blocks, from)) \o << EndUnit >>
<1> DEFINE b == Placed(r.blocks, from)
<1> DEFINE h == << HeaderUnit(size) >>
<1> DEFINE e == << EndUnit >>
<1>1. UnitsOf(r, size, from) = (h \o b) \o e
  <2>1. "header" \in {"header", "blocks", "footer"} /\ "footer" \in {"header", "blocks", "footer"}
    OBVIOUS
  <2> QED BY <2>1, Zenon DEF UnitsOf
<1>2. b \in Seq(Units)
  BY PlacedIs
<1>3. h \in Seq(Units) /\ e \in Seq(Units)
  <2>1. HeaderUnit(size) \in Units /\ EndUnit \in Units
    BY UnitTypes
  <2>2. \A u \in Units : << u >> \in Seq(Units)
    BY SMT
  <2> QED BY <2>1, <2>2
<1> HIDE DEF b, h, e
<1>4. h \o b \in Seq(Units)
  BY <1>2, <1>3, Appended
<1>5. \A p \in Seq(Units), q \in Seq(Units), s \in Seq(Units) : (p \o q) \o s = p \o (q \o s)
  BY ConcatAssociative
<1>6. units \o ((h \o b) \o e) = (units \o (h \o b)) \o e
  BY <1>3, <1>4, <1>5
<1>7. units \o (h \o b) = (units \o h) \o b
  BY <1>2, <1>3, <1>5
<1> QED BY <1>1, <1>6, <1>7 DEF b, h, e

LEMMA HeaderOnly ==
  ASSUME NEW r, NEW size \in Nat, NEW from \in Nat, NEW units \in Seq(Units),
         r.parts = {"header"}, r.blocks = << >>
  PROVE  units \o UnitsOf(r, size, from) = units \o << HeaderUnit(size) >>
<1> DEFINE h == << HeaderUnit(size) >>
<1>1. UnitsOf(r, size, from) = (h \o Placed(r.blocks, from)) \o << >>
  <2>1. "header" \in {"header"} /\ "footer" \notin {"header"}
    OBVIOUS
  <2> QED BY <2>1, Zenon DEF UnitsOf
<1>2. Placed(r.blocks, from) = << >>
  BY NoBlocks, Zenon
<1>3. h \in Seq(Units)
  <2>1. HeaderUnit(size) \in Units
    BY UnitTypes
  <2> QED BY <2>1, SMT
<1> HIDE DEF h
<1>4. h \o << >> = h
  BY <1>3, ConcatEmptySeq
<1>5. UnitsOf(r, size, from) = h
  BY <1>1, <1>2, <1>4
<1> QED BY <1>5 DEF h

\* How the file stood, and what is left to show of how it stands.
LEMMA RowOf ==
  ASSUME Row, ~ lost, ~ cut
  PROVE  /\ TrueRow(disk)
         /\ LET w == Whole(disk)
            IN  w.result = "error" \/ Underway(w) \/ Complete(w) \/ Abandoned(w)
BY Zenon DEF Row, InFile

LEMMA RowIs ==
  ASSUME NEW v, v = Whole(disk'), ~ lost' => TrueRow(disk'),
         ~ lost' /\ ~ cut' =>
           \/ v.result = "error"
           \/ /\ started' /\ OpenAt(v, prefs'.size, sent', base' + sent')
              /\ total' = base' + accepted'
              /\ cctx'.prefs.size = prefs'.size
              /\ IF cctx'.cStage = 1 THEN sent' + cctx'.tmpInSize = accepted' ELSE WrongSize(cctx')
           \/ ~ started' /\ v.result = "end" /\ Len(v.out) = total'
           \/ ~ started' /\ ~ has' /\ failed' /\ v.open /\ v.result = "more",
         ~ failed' => clean' /\ ~ lost',
         ~ failed' /\ ~ cut' => v.result # "error"
  PROVE  Row'
<1>1. ~ lost' /\ ~ cut' => InFile(Whole(disk))'
  BY Zenon DEF InFile, Underway, Complete, Abandoned
<1> QED BY <1>1, Zenon DEF Row

-----------------------------------------------------------------------------
(* The file is what it should be after every step.                         *)

\* Blocks are written where the content they carry belongs, or none are.
LEMMA WriteTypes ==
  ASSUME FileTypes, NEW from \in Nat, NEW start \in Nat, NEW kept \in BOOLEAN,
         Sequenced(ret'.blocks, start), FpWrite(kept, from)
  PROVE  /\ disk' \in Seq(Units)
         /\ ~ kept => disk' = disk /\ failed' = TRUE /\ lost' = TRUE
         /\ kept => /\ disk' = disk \o UnitsOf(ret', prefs.size, from)
                    /\ failed' = failed /\ lost' = lost
<1>1. /\ disk' = IF kept THEN disk \o UnitsOf(ret', prefs.size, from) ELSE disk
      /\ failed' = (failed \/ ~ kept) /\ lost' = (lost \/ ~ kept)
  BY DEF FpWrite
<1>2. disk \in Seq(Units) /\ prefs.size \in Nat /\ failed \in BOOLEAN /\ lost \in BOOLEAN
  BY DEF FileTypes
<1>3. disk \o UnitsOf(ret', prefs.size, from) \in Seq(Units)
  BY <1>2, UnitsOfIs
<1> QED BY <1>1, <1>2, <1>3, Zenon

LEMMA BeginRow ==
  ASSUME IInv, Calling, FileTypes, Row, BeginFrame
  PROVE  disk' \in Seq(Units) /\ Row'
<1> DEFINE w == Whole(disk)
<1> DEFINE v == Whole(disk')
<1>0. /\ disk \in Seq(Units) /\ total \in Nat /\ prefs.size \in Nat /\ prefs \in Choices
      /\ failed \in BOOLEAN /\ lost \in BOOLEAN /\ ~ started /\ mode = "write" /\ ~ cut
  BY DEF FileTypes, Calling, BeginFrame
<1>1. /\ begin(prefs) /\ cut' = cut /\ prefs' = prefs /\ total' = total
      /\ ret'.status = "ok" => base' = total /\ \E kept \in Outages : FpWrite(kept, total)
      /\ ret'.status # "ok" => NotWritten
  BY DEF BeginFrame
<1>2. CASE ret'.status = "ok"
  <2>1. BeginDone(prefs)
    BY <1>0, <1>1, <1>2, BeginOutcome
  <2>2. /\ cctx' = Begin(NewContext, prefs) /\ started' = TRUE /\ accepted' = 0 /\ sent' = 0 /\ clean' = TRUE
        /\ ret'.parts = {"header"} /\ ret'.blocks = << >>
    BY <2>1 DEF BeginDone, HeaderReturned, Returned
  <2>3. /\ cctx'.cStage = 1 /\ cctx'.tmpInSize = 0 /\ cctx'.prefs = prefs
    <3>1. ContentSizes \in SUBSET Nat /\ prefs \in Preferences(ContentSizes)
      BY <1>0, ClassAssumption
    <3>2. Begin(NewContext, prefs).prefs = prefs
      BY DEF Begin, NewContext
    <3> QED BY <2>2, <3>1, <3>2, BeginSound, NewContextTypes
  <2>4. PICK kept \in BOOLEAN : FpWrite(kept, total)
    BY <1>1, <1>2 DEF Outages
  <2>5. Sequenced(ret'.blocks, 0) /\ 0 \in Nat
    <3>1. 0 \in Int /\ 0 \in Nat
      BY SMT
    <3> QED BY <2>2, <3>1, NoBlocks, Zenon
  <2>6. /\ disk' \in Seq(Units)
        /\ ~ kept => disk' = disk /\ failed' = TRUE /\ lost' = TRUE
        /\ kept => /\ disk' = disk \o UnitsOf(ret', prefs.size, total)
                   /\ failed' = failed /\ lost' = lost
    BY <1>0, <2>4, <2>5, WriteTypes
  <2>7. CASE ~ kept
    <3>1. lost' = TRUE /\ failed' = TRUE
      BY <2>6, <2>7
    <3> QED BY <2>6, <3>1, RowIs, Zenon
  <2>8. CASE kept
    <3>1. disk' = disk \o << HeaderUnit(prefs.size) >> /\ failed' = failed /\ lost' = lost
      <4>1. disk \o UnitsOf(ret', prefs.size, total) = disk \o << HeaderUnit(prefs.size) >>
        <5>1. ret'.parts = {"header"} /\ ret'.blocks = << >>
          BY <2>2
        <5> QED BY <1>0, <5>1, HeaderOnly, SMTT(60)
      <4> QED BY <2>6, <2>8, <4>1, Zenon
    <3>2. HeaderUnit(prefs.size) \in Units /\ HeaderUnit(prefs.size).kind = "header"
      BY <1>0, UnitTypes DEF HeaderUnit
    <3>3. ASSUME ~ lost
          PROVE  /\ TrueRow(disk')
                 /\ \/ v.result = "error" /\ failed
                    \/ OpenAt(v, prefs.size, 0, total)
      <4>1. /\ TrueRow(disk)
            /\ w.result = "error" \/ Underway(w) \/ Complete(w) \/ Abandoned(w)
        BY <1>0, <3>3, RowOf
      <4>2. CASE w.result = "error"
        <5>1. failed
          BY <1>0, <4>2 DEF Row
        <5>2. << HeaderUnit(prefs.size) >> \in Seq(Units)
          BY <3>2, SMT
        <5> QED BY <1>0, <3>1, <4>1, <4>2, <5>1, <5>2, ErrorRow
      <4>3. CASE Complete(w)
        <5>1. w.result = "end" /\ Len(w.out) = total
          BY <4>3 DEF Complete
        <5> QED BY <1>0, <3>1, <4>1, <5>1, HeaderWritten
      <4>4. CASE Abandoned(w)
        <5>1. w.open /\ w.result = "more" /\ failed
          BY <4>4 DEF Abandoned
        <5> QED BY <1>0, <3>1, <3>2, <4>1, <5>1, Misplaced
      <4>5. ~ Underway(w)
        BY <1>0 DEF Underway
      <4> QED BY <4>1, <4>2, <4>3, <4>4, <4>5
    <3>4. ~ failed => ~ lost
      BY DEF Row
    <3>5. total + 0 = total /\ 0 + 0 = 0
      BY <1>0, SMT
    <3>6. OpenAt(v, prefs.size, 0, total) => v.result # "error"
      BY DEF OpenAt
    <3> HIDE DEF w
    <3>7. ~ lost' => TrueRow(disk')
      BY <3>1, <3>3
    <3>8. ~ lost' /\ ~ cut' =>
            \/ v.result = "error"
            \/ /\ started' /\ OpenAt(v, prefs'.size, sent', base' + sent')
               /\ total' = base' + accepted'
               /\ cctx'.prefs.size = prefs'.size
               /\ IF cctx'.cStage = 1 THEN sent' + cctx'.tmpInSize = accepted' ELSE WrongSize(cctx')
      <4> HIDE DEF v
      <4> QED BY <1>1, <1>2, <2>2, <2>3, <3>1, <3>3, <3>5
    <3>9. (~ failed' => clean' /\ ~ lost') /\ (~ failed' /\ ~ cut' => v.result # "error")
      <4> HIDE DEF v
      <4> QED BY <2>2, <3>1, <3>3, <3>4, <3>6
    <3> QED BY <2>6, <3>7, <3>8, <3>9, RowIs
  <2> QED BY <2>7, <2>8
<1>3. CASE ret'.status # "ok"
  <2>1. /\ ret'.status \in {"MemoryError", "allocation"} /\ started' = started
    BY <1>0, <1>1, <1>3, BeginOutcome
  <2>2. ~ failed /\ failed' = TRUE /\ disk' = disk /\ (~ lost' => ~ lost)
    BY <1>1, <1>3, <2>1 DEF NotWritten, Bounded
  <2>3. ASSUME ~ lost'
        PROVE  TrueRow(disk') /\ (v.result = "error" \/ (v.result = "end" /\ Len(v.out) = total'))
    <3>1. /\ TrueRow(disk)
          /\ w.result = "error" \/ Underway(w) \/ Complete(w) \/ Abandoned(w)
      BY <1>0, <2>2, <2>3, RowOf
    <3>2. ~ Underway(w) /\ ~ Abandoned(w)
      BY <1>0, <2>2 DEF Underway, Abandoned
    <3>3. Complete(w) => w.result = "end" /\ Len(w.out) = total
      BY DEF Complete
    <3>4. v = w
      BY <2>2
    <3> HIDE DEF v, w
    <3> QED BY <1>1, <2>2, <3>1, <3>2, <3>3, <3>4
  <2>4. ~ started'
    BY <1>0, <2>1
  <2> HIDE DEF w
  <2> QED BY <1>0, <2>2, <2>3, <2>4, RowIs, Zenon
<1> QED BY <1>2, <1>3

LEMMA CompressRow ==
  ASSUME IInv, Calling, FileTypes, Row, CompressData
  PROVE  disk' \in Seq(Units) /\ Row' /\ total' \in Nat
<1> DEFINE n == todo
<1> DEFINE w == Whole(disk)
<1> DEFINE v == Whole(disk')
<1>0. /\ disk \in Seq(Units) /\ total \in Nat /\ base \in Nat /\ prefs.size \in Nat
      /\ failed \in BOOLEAN /\ lost \in BOOLEAN /\ started /\ has /\ mode = "write" /\ ~ cut /\ n \in Nat
  <2>1. step = "compress"
    BY DEF CompressData
  <2>2. started /\ n \in 0 .. MaxContent /\ has /\ mode = "write" /\ ~ cut
    BY <2>1 DEF Calling
  <2>3. n \in Nat
    BY <2>2, SMT
  <2> QED BY <2>2, <2>3 DEF FileTypes
<1>1. /\ compress(n) /\ cut' = cut /\ prefs' = prefs /\ base' = base /\ total' = base + accepted'
      /\ ret'.status = "ok" => \E kept \in Outages : FpWrite(kept, base)
      /\ ret'.status # "ok" => NotWritten
  BY DEF CompressData
<1>2. accepted \in Nat /\ sent \in Nat /\ cctx.tmpInSize \in Nat /\ cctx.cStage \in {0, 1}
  BY Types
<1>3. ASSUME ~ lost
      PROVE  /\ TrueRow(disk)
             /\ \/ w.result = "error" /\ failed
                \/ /\ OpenAt(w, prefs.size, sent, base + sent) /\ total = base + accepted
                   /\ cctx.prefs.size = prefs.size
                   /\ IF cctx.cStage = 1 THEN sent + cctx.tmpInSize = accepted ELSE WrongSize(cctx)
  <2>1. /\ TrueRow(disk)
        /\ w.result = "error" \/ Underway(w) \/ Complete(w) \/ Abandoned(w)
    BY <1>0, <1>3, RowOf
  <2>2. ~ Complete(w) /\ ~ Abandoned(w)
    BY <1>0 DEF Complete, Abandoned
  <2>3. w.result = "error" => failed
    BY <1>0 DEF Row
  <2> HIDE DEF w
  <2> QED BY <2>1, <2>2, <2>3 DEF Underway
<1>4. (~ failed => clean /\ ~ lost) /\ has' = has /\ started' = started
  BY <1>0, <1>1, CompressOutcome DEF Row
<1>5. CASE ret'.status = "ok"
  <2> DEFINE blocks == UpdateBlocks(cctx, accepted, n)
  <2> DEFINE start == accepted - cctx.tmpInSize
  <2> DEFINE some == UpdateBytes(cctx, n)
  <2>1. /\ ~ ChunkRefused(cctx, n) /\ cctx' = Update(cctx, accepted, n) /\ accepted' = accepted + n
        /\ sent' = sent + some /\ clean' = clean /\ ret' = ChunkReturned(cctx, accepted, n)
    BY <1>0, <1>1, <1>5, CompressOutcome
  <2>2. ret'.parts = {"blocks"} /\ ret'.blocks = blocks
    BY <2>1 DEF ChunkReturned, Returned
  <2>3. /\ start \in Nat /\ Sequenced(blocks, start) /\ CarriedBy(blocks) = some /\ some \in Nat
        /\ cctx.cStage = 1 /\ cctx'.cStage = 1 /\ cctx'.prefs = cctx.prefs
        /\ cctx'.tmpInSize \in Nat /\ some + cctx'.tmpInSize = cctx.tmpInSize + n
    BY <1>0, <2>1, CompressedBlocks
  <2> HIDE DEF blocks, start, some
  <2>4. PICK kept \in BOOLEAN : FpWrite(kept, base)
    BY <1>1, <1>5 DEF Outages
  <2>5. Sequenced(ret'.blocks, start)
    BY <2>2, <2>3
  <2>6. /\ disk' \in Seq(Units)
        /\ ~ kept => disk' = disk /\ failed' = TRUE /\ lost' = TRUE
        /\ kept => /\ disk' = disk \o UnitsOf(ret', prefs.size, base)
                   /\ failed' = failed /\ lost' = lost
    BY <1>0, <2>3, <2>4, <2>5, WriteTypes
  <2>7. total' \in Nat
    BY <1>0, <1>1, <1>2, <2>1, SMT
  <2>8. CASE ~ kept
    <3>1. lost' = TRUE /\ failed' = TRUE
      BY <2>6, <2>8
    <3> QED BY <2>6, <2>7, <3>1, RowIs, Zenon
  <2>9. CASE kept
    <3>1. disk' = disk \o Placed(blocks, base) /\ failed' = failed /\ lost' = lost
      <4>1. disk \o UnitsOf(ret', prefs.size, base) = disk \o Placed(ret'.blocks, base)
        <5>1. ret'.parts = {"blocks"} /\ start \in Nat
          BY <2>2, <2>3
        <5> QED BY <1>0, <2>5, <5>1, OnlyBlocks, ZenonT(60)
      <4> QED BY <2>2, <2>6, <2>9, <4>1
    <3>2. ASSUME ~ lost
          PROVE  /\ TrueRow(disk')
                 /\ \/ v.result = "error" /\ failed
                    \/ /\ OpenAt(v, prefs.size, sent', base + sent') /\ total' = base + accepted'
                       /\ cctx'.prefs.size = prefs.size /\ sent' + cctx'.tmpInSize = accepted'
      <4>1. CASE w.result = "error" /\ failed
        <5>1. Placed(blocks, base) \in Seq(Units)
          BY <1>0, <2>3, PlacedIs
        <5> QED BY <1>0, <1>3, <3>1, <3>2, <4>1, <5>1, ErrorRow
      <4>2. CASE /\ OpenAt(w, prefs.size, sent, base + sent) /\ total = base + accepted
                 /\ cctx.prefs.size = prefs.size
                 /\ IF cctx.cStage = 1 THEN sent + cctx.tmpInSize = accepted ELSE WrongSize(cctx)
        <5>1. sent + cctx.tmpInSize = accepted
          BY <2>3, <4>2
        <5>2. start = sent
          BY <1>2, <5>1, SMT DEF start
        <5>3. /\ OpenAt(v, prefs.size, sent + CarriedBy(blocks), base + sent + CarriedBy(blocks))
              /\ TrueRow(disk) => TrueRow(disk')
          BY <1>0, <1>2, <2>3, <3>1, <4>2, <5>2, BlocksWritten, Zenon
        <5>4. base + sent + some = base + (sent + some)
          BY <1>0, <1>2, <2>3, SMT
        <5>5. sent' + cctx'.tmpInSize = accepted'
          <6>1. sent' = sent + some /\ accepted' = accepted + n /\ sent + cctx.tmpInSize = accepted
                /\ some + cctx'.tmpInSize = cctx.tmpInSize + n
            BY <2>1, <2>3, <5>1
          <6> DEFINE a == cctx.tmpInSize
          <6> DEFINE b == cctx'.tmpInSize
          <6> DEFINE s == accepted'
          <6> DEFINE t == sent'
          <6>2. t = sent + some /\ s = accepted + n /\ sent + a = accepted /\ some + b = a + n
            BY <1>2, <2>3, <6>1
          <6> HIDE DEF a, b, s, t, n
          <6>3. {a, b, sent, some, accepted, n} \subseteq Nat
            BY <1>0, <1>2, <2>3 DEF a, b, n
          <6>4. t + b = s
            BY <6>2, <6>3, SMT
          <6> QED BY <6>4 DEF b, s, t
        <5>6. OpenAt(v, prefs.size, sent', base + sent')
          BY <2>1, <2>3, <5>3, <5>4
        <5> HIDE DEF v
        <5> QED BY <1>1, <1>3, <2>3, <3>2, <4>2, <5>3, <5>5, <5>6
      <4> HIDE DEF v, w
      <4> QED BY <1>3, <3>2, <4>1, <4>2
    <3>3. ~ lost' => TrueRow(disk')
      BY <3>1, <3>2
    <3>4. v.result # "error" \/ failed' \/ lost'
      <4> HIDE DEF v
      <4> QED BY <3>1, <3>2 DEF OpenAt
    <3>5. (~ failed' => clean' /\ ~ lost') /\ (~ failed' /\ ~ cut' => v.result # "error")
      <4> HIDE DEF v
      <4> QED BY <1>4, <2>1, <3>1, <3>4
    <3>6. ~ lost' /\ ~ cut' =>
            \/ v.result = "error"
            \/ /\ started' /\ OpenAt(v, prefs'.size, sent', base' + sent')
               /\ total' = base' + accepted'
               /\ cctx'.prefs.size = prefs'.size
               /\ IF cctx'.cStage = 1 THEN sent' + cctx'.tmpInSize = accepted' ELSE WrongSize(cctx')
      <4> HIDE DEF v
      <4> QED BY <1>0, <1>1, <1>4, <2>3, <3>1, <3>2
    <3> QED BY <2>6, <2>7, <3>3, <3>5, <3>6, RowIs
  <2> QED BY <2>8, <2>9
<1>6. CASE ret'.status # "ok"
  <2>1. /\ sent' = sent
        /\ \/ cctx' = cctx /\ accepted' = accepted
           \/ /\ ret'.status = "MemoryError" /\ ~ ChunkRefused(cctx, n)
              /\ cctx' = Update(cctx, accepted, n) /\ accepted' = accepted + n
    BY <1>0, <1>1, <1>6, CompressOutcome
  <2>2. /\ failed' = TRUE /\ disk' = disk
        /\ ~ lost' => ~ lost /\ (ret'.status # "MemoryError" \/ cctx' = cctx)
    BY <1>1, <1>6 DEF NotWritten
  <2>3. accepted' \in Nat
    BY <1>0, <1>2, <2>1, SMT
  <2>4. total' \in Nat
    <3>1. base + accepted' \in Nat
      <4> DEFINE a == accepted'
      <4>1. a \in Nat /\ base \in Nat
        BY <1>0, <2>3
      <4> HIDE DEF a
      <4>2. base + a \in Nat
        BY <4>1, SMT
      <4> QED BY <4>2 DEF a
    <3> QED BY <1>1, <3>1
  <2>5. ASSUME ~ lost' PROVE cctx' = cctx /\ accepted' = accepted
    <3>1. CASE cctx' = cctx /\ accepted' = accepted
      BY <3>1
    <3>2. CASE /\ ret'.status = "MemoryError" /\ ~ ChunkRefused(cctx, n)
               /\ cctx' = Update(cctx, accepted, n) /\ accepted' = accepted + n
      <4>1. cctx' = cctx
        BY <2>2, <2>5, <3>2
      <4>2. cctx'.total = cctx.total + n
        BY <1>0, <3>2, CompressedBlocks
      <4>3. cctx.total \in Nat
        BY Types, ContextTypes DEF IsContext
      <4>4. cctx.total + n = cctx.total
        BY <4>1, <4>2
      <4>5. n = 0
        <5> DEFINE a == cctx.total
        <5>1. a \in Nat /\ a + n = a
          BY <4>3, <4>4
        <5> HIDE DEF a
        <5> QED BY <1>0, <5>1, SMT
      <4>6. accepted + 0 = accepted
        BY <1>2, SMT
      <4> QED BY <3>2, <4>1, <4>5, <4>6
    <3> QED BY <2>1, <3>1, <3>2
  <2>6. v = w
    BY <2>2
  <2>7. ~ lost' /\ ~ cut' =>
          \/ v.result = "error"
          \/ /\ started' /\ OpenAt(v, prefs'.size, sent', base' + sent')
             /\ total' = base' + accepted'
             /\ cctx'.prefs.size = prefs'.size
             /\ IF cctx'.cStage = 1 THEN sent' + cctx'.tmpInSize = accepted' ELSE WrongSize(cctx')
    <3>1. ASSUME ~ lost'
          PROVE  \/ v.result = "error"
                 \/ /\ started' /\ OpenAt(v, prefs'.size, sent', base' + sent')
                    /\ total' = base' + accepted'
                    /\ cctx'.prefs.size = prefs'.size
                    /\ IF cctx'.cStage = 1 THEN sent' + cctx'.tmpInSize = accepted' ELSE WrongSize(cctx')
      <4>1. cctx' = cctx /\ accepted' = accepted /\ ~ lost
        BY <2>2, <2>5, <3>1
      <4> HIDE DEF v, w
      <4> QED BY <1>0, <1>1, <1>3, <1>4, <2>1, <2>6, <4>1, Zenon
    <3> QED BY <3>1
  <2>8. ~ lost' => TrueRow(disk')
    BY <1>3, <2>2
  <2> HIDE DEF v, w
  <2>9. disk' \in Seq(Units)
    BY <1>0, <2>2
  <2> QED BY <2>2, <2>4, <2>7, <2>8, <2>9, RowIs, Zenon DEF v
<1> QED BY <1>5, <1>6

\* The rest of a frame's blocks and its end.
LEMMA FrameClosed ==
  ASSUME NEW units \in Seq(Units), NEW blocks, NEW start \in Nat, NEW from \in Nat,
         NEW size, NEW count \in Nat, Sequenced(blocks, start),
         OpenAt(Whole(units), size, count, from + start)
  PROVE  LET row == (units \o Placed(blocks, from)) \o << EndUnit >>
         IN  /\ row \in Seq(Units) /\ Len(Whole(row).out) = from + start + CarriedBy(blocks)
             /\ Whole(row).result = IF size > 0 /\ size # count + CarriedBy(blocks) THEN "error" ELSE "end"
             /\ TrueRow(units) => TrueRow(row)
<1> DEFINE t == units \o Placed(blocks, from)
<1> DEFINE row == t \o << EndUnit >>
<1> DEFINE a == count + CarriedBy(blocks)
<1> DEFINE b == from + start + CarriedBy(blocks)
<1>1. t \in Seq(Units) /\ OpenAt(Whole(t), size, a, b) /\ (TrueRow(units) => TrueRow(t))
  BY BlocksWritten, Zenon
<1> HIDE DEF t, a, b
<1>2. /\ row \in Seq(Units) /\ Len(Whole(row).out) = b
      /\ Whole(row).result = IF size > 0 /\ size # a THEN "error" ELSE "end"
      /\ TrueRow(t) => TrueRow(row)
  BY <1>1, EndWritten, Zenon
<1> QED BY <1>1, <1>2, Zenon DEF t, a, b

\* A compressor's context keeps its frame when that is ended.
LEMMA EndKeepsFrame ==
  ASSUME IInv, has, ~ FlushNotStarted(cctx)
  PROVE  End(cctx).cStage = 0 /\ End(cctx).prefs = cctx.prefs /\ End(cctx).total = cctx.total
<1> DEFINE f == Flush(cctx)
<1>1. ContentSizes \in SUBSET Nat /\ IsContext(cctx, ContentSizes) /\ accepted \in Nat
  BY Types
<1>2. IsContext(f, ContentSizes) /\ SameFrame(cctx, f)
  <2>1. CASE cctx.cStage = 1 /\ started
    <3>1. Sound(cctx, accepted)
      BY <2>1 DEF IInv, Held
    <3> QED BY <1>1, <3>1, FlushSound
  <2>2. CASE ~ (cctx.cStage = 1 /\ started)
    <3>1. cctx.tmpInSize = 0
      BY <2>2 DEF IInv, Held
    <3>2. f = cctx
      BY <3>1 DEF Flush
    <3> HIDE DEF f
    <3> QED BY <1>1, <3>2 DEF SameFrame
  <2> QED BY <2>1, <2>2
<1> QED BY <1>1, <1>2, EndTypes DEF SameFrame

\* What a flush that returned has written.
LEMMA FlushedRow ==
  ASSUME IInv, Calling, FileTypes, Row, mode = "write", has, flush, ret'.status = "ok",
         prefs' = prefs, base' = base, total' = total, cut' = cut,
         NEW kept \in BOOLEAN, FpWrite(kept, base)
  PROVE  disk' \in Seq(Units) /\ Row'
<1> DEFINE w == Whole(disk)
<1> DEFINE v == Whole(disk')
<1> DEFINE blocks == FlushBlocks(cctx)
<1> DEFINE start == IF cctx.cStage = 1 /\ started THEN accepted - cctx.tmpInSize ELSE 0
<1>0. /\ disk \in Seq(Units) /\ total \in Nat /\ base \in Nat /\ prefs.size \in Nat
      /\ failed \in BOOLEAN /\ lost \in BOOLEAN /\ ~ cut
  BY DEF FileTypes, Calling
<1>1. /\ ~ FlushRefused(cctx, TRUE) /\ ~ WrongSize(cctx) /\ has' = FALSE /\ started' = FALSE
      /\ accepted' = accepted /\ clean' = clean /\ ret' = FlushReturned(cctx, TRUE)
  BY FlushOutcome DEF FlushReturns
<1>2. ret'.parts = {"blocks", "footer"} /\ ret'.blocks = blocks
  BY <1>1 DEF FlushReturned, Returned
<1>3. accepted \in Nat /\ sent \in Nat /\ cctx.tmpInSize \in Nat /\ cctx.cStage \in {0, 1}
      /\ has \in BOOLEAN /\ started \in BOOLEAN /\ clean \in BOOLEAN
  BY Types
<1>4. /\ start \in Nat /\ Sequenced(blocks, start)
      /\ cctx.cStage = 1 /\ started => CarriedBy(blocks) = cctx.tmpInSize /\ start = accepted - cctx.tmpInSize
      /\ ~ (cctx.cStage = 1 /\ started) => blocks = << >>
  <2> HIDE DEF blocks
  <2>1. CASE cctx.cStage = 1 /\ started
    BY <2>1, FlushedBlocks, Zenon DEF blocks
  <2>2. CASE ~ (cctx.cStage = 1 /\ started)
    <3>1. blocks = << >>
      BY <2>2, FlushedBlocks, Zenon DEF blocks
    <3>2. 0 \in Nat /\ 0 \in Int
      BY SMT
    <3> QED BY <2>2, <3>1, <3>2, NoBlocks, Zenon
  <2> QED BY <2>1, <2>2
<1>5. Sequenced(ret'.blocks, start)
  BY <1>2, <1>4
<1>6. /\ disk' \in Seq(Units)
      /\ ~ kept => disk' = disk /\ failed' = TRUE /\ lost' = TRUE
      /\ kept => /\ disk' = disk \o UnitsOf(ret', prefs.size, base)
                 /\ failed' = failed /\ lost' = lost
  <2> HIDE DEF start
  <2> QED BY <1>0, <1>4, <1>5, WriteTypes
<1>7. /\ ~ failed => clean /\ ~ lost
      /\ clean => /\ started <=> has
                  /\ started => /\ cctx.cStage = 1 /\ sent + cctx.tmpInSize = accepted
                                /\ cctx.prefs.size > 0 => cctx.total = accepted
  BY DEF Row, IInv, Clean
<1>8. CASE ~ kept
  <2>1. lost' = TRUE /\ failed' = TRUE
    BY <1>6, <1>8
  <2> QED BY <1>6, <2>1, RowIs, Zenon
<1>9. CASE kept
  <2>1. disk' = (disk \o Placed(blocks, base)) \o << EndUnit >> /\ failed' = failed /\ lost' = lost
    <3>1. disk \o UnitsOf(ret', prefs.size, base) = (disk \o Placed(ret'.blocks, base)) \o << EndUnit >>
      <4>1. ret'.parts = {"blocks", "footer"} /\ start \in Nat
        BY <1>2, <1>4
      <4> HIDE DEF start
      <4> QED BY <1>0, <1>5, <4>1, BlocksAndEnd, ZenonT(60)
    <3> QED BY <1>2, <1>6, <1>9, <3>1
  <2>2. ASSUME ~ lost
        PROVE  /\ TrueRow(disk')
               /\ \/ v.result = "error" /\ failed
                  \/ v.result = "end" /\ Len(v.out) = total
                  \/ v.result = "error" /\ Underway(w) /\ cctx.prefs.size > 0 /\ cctx.prefs.size # accepted
    <3>1. /\ TrueRow(disk)
          /\ w.result = "error" \/ Underway(w) \/ Complete(w) \/ Abandoned(w)
      BY <1>0, <2>2, RowOf
    <3>2. CASE w.result = "error"
      <4>1. failed
        BY <1>0, <3>2 DEF Row
      <4>2. Placed(blocks, base) \in Seq(Units) /\ << EndUnit >> \in Seq(Units)
        <5>1. EndUnit \in Units
          BY UnitTypes
        <5>2. Placed(blocks, base) \in Seq(Units)
          <6> HIDE DEF blocks, start
          <6> QED BY <1>0, <1>4, PlacedIs
        <5> QED BY <5>1, <5>2, SMT
      <4> DEFINE t == disk \o Placed(blocks, base)
      <4>3. t \in Seq(Units) /\ Whole(t) = w /\ TrueRow(t)
        BY <1>0, <3>1, <3>2, <4>2, ErrorRow
      <4> HIDE DEF t
      <4>4. Whole(t).result = "error"
        BY <3>2, <4>3
      <4>5. Whole(t \o << EndUnit >>) = Whole(t) /\ TrueRow(t \o << EndUnit >>)
        BY <4>2, <4>3, <4>4, ErrorRow
      <4> QED BY <2>1, <4>1, <4>4, <4>5 DEF t
    <3>3. CASE Underway(w)
      <4>1. /\ started /\ OpenAt(w, prefs.size, sent, base + sent) /\ total = base + accepted
            /\ cctx.prefs.size = prefs.size
            /\ IF cctx.cStage = 1 THEN sent + cctx.tmpInSize = accepted ELSE WrongSize(cctx)
        BY <3>3 DEF Underway
      <4>2. cctx.cStage = 1 /\ sent + cctx.tmpInSize = accepted
        BY <1>1, <4>1
      <4> DEFINE a == cctx.tmpInSize
      <4>3. start = sent /\ CarriedBy(blocks) = a
        <5>1. start = accepted - a /\ CarriedBy(blocks) = a
          BY <1>4, <4>1, <4>2
        <5>2. a \in Nat /\ sent + a = accepted
          BY <1>3, <4>2
        <5> HIDE DEF a, start, blocks
        <5> QED BY <1>3, <5>1, <5>2, SMT
      <4>4. Sequenced(blocks, sent)
        BY <1>4, <4>3
      <4> HIDE DEF w, start, blocks
      <4>5. /\ Len(v.out) = base + sent + CarriedBy(blocks) /\ TrueRow(disk')
            /\ v.result = IF prefs.size > 0 /\ prefs.size # sent + CarriedBy(blocks) THEN "error" ELSE "end"
        <5> DEFINE row == (disk \o Placed(blocks, base)) \o << EndUnit >>
        <5>1. OpenAt(Whole(disk), prefs.size, sent, base + sent)
          BY <4>1 DEF w
        <5>2. /\ Len(Whole(row).out) = base + sent + CarriedBy(blocks) /\ (TrueRow(disk) => TrueRow(row))
              /\ Whole(row).result = IF prefs.size > 0 /\ prefs.size # sent + CarriedBy(blocks) THEN "error" ELSE "end"
          <6> DEFINE z == prefs.size
          <6> HIDE DEF z
          <6>1. OpenAt(Whole(disk), z, sent, base + sent)
            BY <5>1 DEF z
          <6>2. base \in Nat /\ sent \in Nat /\ disk \in Seq(Units) /\ Sequenced(blocks, sent)
            BY <1>0, <1>3, <4>4
          <6>3. /\ Len(Whole(row).out) = base + sent + CarriedBy(blocks) /\ (TrueRow(disk) => TrueRow(row))
                /\ Whole(row).result = IF z > 0 /\ z # sent + CarriedBy(blocks) THEN "error" ELSE "end"
            BY <6>1, <6>2, FrameClosed, Zenon
          <6> QED BY <6>3 DEF z
        <5>3. disk' = row
          BY <2>1
        <5> HIDE DEF row
        <5> QED BY <3>1, <5>2, <5>3
      <4>6. base + sent + CarriedBy(blocks) = base + accepted
        <5>1. a \in Nat /\ sent + a = accepted
          BY <1>3, <4>2
        <5> HIDE DEF a
        <5> QED BY <1>0, <1>3, <4>3, <5>1, SMT
      <4>7. sent + CarriedBy(blocks) = accepted
        BY <4>2, <4>3
      <4> HIDE DEF v, a
      <4> QED BY <3>3, <4>1, <4>5, <4>6, <4>7
    <3>4. CASE Complete(w)
      <4>1. ~ started /\ w.result = "end"
        BY <3>4 DEF Complete
      <4>2. failed
        BY <1>0, <1>7, <4>1
      <4>3. blocks = << >>
        BY <1>4, <4>1
      <4>4. Placed(blocks, base) = << >>
        BY <4>3, NoBlocks, Zenon
      <4>5. disk \o << >> = disk
        BY <1>0, ConcatEmptySeq
      <4>6. disk' = disk \o << EndUnit >>
        BY <2>1, <4>4, <4>5
      <4>7. EndUnit \in Units /\ EndUnit.kind = "end"
        BY UnitTypes DEF EndUnit
      <4>8. Whole(disk \o << EndUnit >>).result = "error" /\ TrueRow(disk \o << EndUnit >>)
        BY <1>0, <3>1, <4>1, <4>7, Misplaced
      <4> QED BY <4>2, <4>6, <4>8
    <3>5. ~ Abandoned(w)
      BY DEF Abandoned
    <3> HIDE DEF w, v
    <3> QED BY <3>1, <3>2, <3>3, <3>4, <3>5
  <2>3. ASSUME ~ failed
        PROVE  ~ lost /\ v.result # "error"
    <3>1. clean /\ ~ lost
      BY <1>7, <2>3
    <3>2. started /\ (cctx.prefs.size > 0 => cctx.total = accepted)
      BY <1>7, <3>1
    <3>3. ~ (cctx.prefs.size > 0 /\ cctx.prefs.size # accepted)
      BY <1>1, <3>2 DEF WrongSize
    <3> HIDE DEF v, w
    <3> QED BY <2>2, <2>3, <3>1, <3>3
  <2>4. ~ lost' => TrueRow(disk')
    BY <2>1, <2>2
  <2>5. ~ lost' /\ ~ cut' => v.result = "error" \/ (~ started' /\ v.result = "end" /\ Len(v.out) = total')
    <3> HIDE DEF v, w
    <3> QED BY <1>1, <2>1, <2>2
  <2>6. (~ failed' => clean' /\ ~ lost') /\ (~ failed' /\ ~ cut' => v.result # "error")
    <3> HIDE DEF v
    <3> QED BY <1>1, <1>7, <2>1, <2>3
  <2> HIDE DEF v
  <2> QED BY <1>6, <2>4, <2>5, <2>6, RowIs, Zenon DEF v
<1> QED BY <1>8, <1>9

\* And one that raised.
LEMMA UnflushedRow ==
  ASSUME IInv, NeverTooSmall', Calling, FileTypes, Row, mode = "write", has, flush, ret'.status # "ok",
         prefs' = prefs, base' = base, total' = total, cut' = cut, NotWritten
  PROVE  disk' \in Seq(Units) /\ Row'
<1> DEFINE w == Whole(disk)
<1>0. disk \in Seq(Units) /\ lost \in BOOLEAN /\ ~ cut
  BY DEF FileTypes, Calling
<1>1. /\ has' = has /\ started' = started /\ sent' = sent /\ accepted' = accepted
      /\ \/ cctx' = cctx
         \/ FlushRefused(cctx, TRUE) /\ cctx' = AfterRefusedFlush(cctx) /\ ret' = FlushRaised(cctx)
         \/ /\ ~ FlushRefused(cctx, TRUE) /\ cctx' = End(cctx)
            /\ ret' = Raised(IF WrongSize(cctx) THEN "frameSize" ELSE "MemoryError")
  BY FlushOutcome
<1>2. /\ disk' = disk /\ failed' = TRUE
      /\ ~ lost' => ~ lost /\ (ret'.status = "MemoryError" => cctx' = cctx)
  BY DEF NotWritten
<1>3. ASSUME ~ lost'
      PROVE  cctx' = cctx \/ (cctx'.cStage = 0 /\ WrongSize(cctx') /\ cctx'.prefs = cctx.prefs)
  <2>1. CASE FlushRefused(cctx, TRUE) /\ cctx' = AfterRefusedFlush(cctx) /\ ret' = FlushRaised(cctx)
    <3>1. ret'.status # "tooSmall"
      BY DEF NeverTooSmall
    <3>2. FlushNotStarted(cctx)
      BY <2>1, <3>1 DEF FlushRaised, Raised
    <3> QED BY <2>1, <3>2 DEF AfterRefusedFlush
  <2>2. CASE /\ ~ FlushRefused(cctx, TRUE) /\ cctx' = End(cctx)
             /\ ret' = Raised(IF WrongSize(cctx) THEN "frameSize" ELSE "MemoryError")
    <3>1. CASE ~ WrongSize(cctx)
      <4>1. ret'.status = "MemoryError"
        BY <2>2, <3>1, Zenon DEF Raised
      <4> QED BY <1>2, <1>3, <4>1
    <3>2. CASE WrongSize(cctx)
      <4>1. ~ FlushNotStarted(cctx)
        BY <2>2 DEF FlushRefused
      <4>2. cctx'.cStage = 0 /\ cctx'.prefs = cctx.prefs /\ cctx'.total = cctx.total
        BY <2>2, <4>1, EndKeepsFrame
      <4> QED BY <3>2, <4>2 DEF WrongSize
    <3> QED BY <3>1, <3>2
  <2> QED BY <1>1, <2>1, <2>2
<1>4. ASSUME ~ lost'
      PROVE  /\ TrueRow(disk')
             /\ \/ w.result = "error"
                \/ /\ started' /\ OpenAt(w, prefs'.size, sent', base' + sent')
                   /\ total' = base' + accepted'
                   /\ cctx'.prefs.size = prefs'.size
                   /\ IF cctx'.cStage = 1 THEN sent' + cctx'.tmpInSize = accepted' ELSE WrongSize(cctx')
                \/ ~ started' /\ w.result = "end" /\ Len(w.out) = total'
  <2>1. /\ TrueRow(disk)
        /\ w.result = "error" \/ Underway(w) \/ Complete(w) \/ Abandoned(w)
    BY <1>0, <1>2, <1>4, RowOf
  <2>2. ~ Abandoned(w)
    BY DEF Abandoned
  <2>3. ASSUME Underway(w)
        PROVE  /\ started' /\ OpenAt(w, prefs'.size, sent', base' + sent')
               /\ total' = base' + accepted'
               /\ cctx'.prefs.size = prefs'.size
               /\ IF cctx'.cStage = 1 THEN sent' + cctx'.tmpInSize = accepted' ELSE WrongSize(cctx')
    <3>1. /\ started /\ OpenAt(w, prefs.size, sent, base + sent) /\ total = base + accepted
          /\ cctx.prefs.size = prefs.size
          /\ IF cctx.cStage = 1 THEN sent + cctx.tmpInSize = accepted ELSE WrongSize(cctx)
      BY <2>3 DEF Underway
    <3> HIDE DEF w
    <3>2. CASE cctx' = cctx
      BY <1>1, <3>1, <3>2, Zenon
    <3>3. CASE cctx'.cStage = 0 /\ WrongSize(cctx') /\ cctx'.prefs = cctx.prefs
      <4>1. cctx'.cStage # 1
        BY <3>3
      <4> QED BY <1>1, <3>1, <3>3, <4>1, Zenon
    <3> QED BY <1>3, <1>4, <3>2, <3>3
  <2>4. Complete(w) => ~ started' /\ w.result = "end" /\ Len(w.out) = total'
    <3> HIDE DEF w
    <3> QED BY <1>1 DEF Complete
  <2> HIDE DEF w
  <2> QED BY <1>2, <2>1, <2>2, <2>3, <2>4
<1>5. w = Whole(disk') /\ disk' \in Seq(Units)
  BY <1>0, <1>2
<1>6. ~ lost' => TrueRow(disk')
  BY <1>4
<1>7. failed' = TRUE
  BY <1>2
<1> HIDE DEF w
<1> QED BY <1>4, <1>5, <1>6, <1>7, RowIs, Zenon

\* Row says nothing of the step, nor of how much was asked for.
LEMMA SameRow ==
  ASSUME Row, UNCHANGED <<has, cctx, started, accepted, sent, clean, prefs, disk, total, base, failed, lost, cut>>
  PROVE  Row'
BY Zenon DEF Row, InFile, Underway, Complete, Abandoned

LEMMA FlushRow ==
  ASSUME IInv, NeverTooSmall', Calling, FileTypes, Row, mode = "write", FlushFrame
  PROVE  disk' \in Seq(Units) /\ Row'
<1>1. prefs' = prefs /\ base' = base /\ total' = total /\ cut' = cut
  BY DEF FlushFrame
<1>2. CASE has /\ flush
  <2>1. /\ ret'.status = "ok" => \E kept \in Outages : FpWrite(kept, base)
        /\ ret'.status # "ok" => NotWritten
    <3>1. \/ IF ret'.status = "ok" THEN \E kept \in Outages : FpWrite(kept, base) ELSE NotWritten
          \/ ~ has
      BY Zenon DEF FlushFrame
    <3> QED BY <1>2, <3>1, Zenon
  <2>2. CASE ret'.status = "ok"
    <3>1. PICK kept \in BOOLEAN : FpWrite(kept, base)
      BY <2>1, <2>2 DEF Outages
    <3> QED BY <1>1, <1>2, <2>2, <3>1, FlushedRow
  <2>3. CASE ret'.status # "ok"
    BY <1>1, <1>2, <2>1, <2>3, UnflushedRow
  <2> QED BY <2>2, <2>3
<1>3. CASE UNCHANGED <<vars, disk, failed, lost>>
  <2>1. UNCHANGED <<has, cctx, started, accepted, sent, clean, prefs, disk, total, base, failed, lost, cut>>
    BY <1>1, <1>3 DEF vars
  <2>2. disk \in Seq(Units)
    BY DEF FileTypes
  <2> QED BY <2>1, <2>2, SameRow
<1>4. (has /\ flush) \/ UNCHANGED <<vars, disk, failed, lost>>
  BY Zenon DEF FlushFrame
<1> QED BY <1>2, <1>3, <1>4

\* The compressor goes: a frame that is still open is never ended.
LEMMA ClosedRow ==
  ASSUME Calling, FileTypes, Row, Closed
  PROVE  disk' \in Seq(Units) /\ Row'
<1> DEFINE w == Whole(disk)
<1>0. /\ disk \in Seq(Units) /\ lost \in BOOLEAN /\ failed \in BOOLEAN /\ mode = "write" /\ ~ cut
      /\ started => failed
  BY DEF FileTypes, Calling, Closed
<1>1. /\ has' = FALSE /\ started' = FALSE /\ clean' = TRUE /\ disk' = disk /\ total' = total
      /\ failed' = failed /\ lost' = lost /\ cut' = cut
  BY DEF Closed
<1>2. w = Whole(disk') /\ disk' \in Seq(Units)
  BY <1>0, <1>1
<1>3. ASSUME ~ lost'
      PROVE  /\ TrueRow(disk')
             /\ \/ w.result = "error"
                \/ ~ started' /\ w.result = "end" /\ Len(w.out) = total'
                \/ ~ started' /\ ~ has' /\ failed' /\ w.open /\ w.result = "more"
  <2>1. /\ TrueRow(disk)
        /\ w.result = "error" \/ Underway(w) \/ Complete(w) \/ Abandoned(w)
    BY <1>0, <1>1, <1>3, RowOf
  <2>2. Underway(w) => failed /\ w.open /\ w.result = "more"
    BY <1>0 DEF Underway, OpenAt
  <2>3. Complete(w) => w.result = "end" /\ Len(w.out) = total
    BY DEF Complete
  <2>4. Abandoned(w) => failed /\ w.open /\ w.result = "more"
    BY DEF Abandoned
  <2> HIDE DEF w
  <2> QED BY <1>1, <2>1, <2>2, <2>3, <2>4
<1>4. (~ failed => ~ lost) /\ (~ failed /\ ~ cut => w.result # "error")
  BY DEF Row
<1>5. ~ lost' => TrueRow(disk')
  BY <1>3
<1> HIDE DEF w
<1> QED BY <1>1, <1>2, <1>3, <1>4, <1>5, RowIs, Zenon

\* What there is of a file that nobody writes to.
LEMMA LeftRow ==
  ASSUME Row, ~ started, ~ lost, ~ cut
  PROVE  /\ TrueRow(disk)
         /\ \/ Whole(disk).result = "error" /\ failed
            \/ Whole(disk).result = "end" /\ Len(Whole(disk).out) = total
            \/ failed /\ ~ has /\ Whole(disk).open /\ Whole(disk).result = "more"
<1> DEFINE w == Whole(disk)
<1>1. /\ TrueRow(disk)
      /\ w.result = "error" \/ Underway(w) \/ Complete(w) \/ Abandoned(w)
  BY RowOf
<1>2. ~ Underway(w) /\ (w.result = "error" => failed)
  BY DEF Underway, Row
<1> HIDE DEF w
<1>3. \/ w.result = "error" /\ failed
      \/ w.result = "end" /\ Len(w.out) = total
      \/ failed /\ ~ has /\ w.open /\ w.result = "more"
  BY <1>1, <1>2, Zenon DEF Complete, Abandoned
<1> QED BY <1>1, <1>3 DEF w

\* Steps between two uses of a file that leave it between frames, or no file.
LEMMA AddedRow ==
  ASSUME Calling, FileTypes, Row, ~ started, started' = started, has' = has, clean' = clean,
         failed' = failed, lost' = lost,
         ~ lost => /\ TrueRow(disk')
                   /\ \/ Whole(disk').result = "error" /\ failed
                      \/ Whole(disk').result = "end" /\ Len(Whole(disk').out) = total'
  PROVE  Row'
<1> DEFINE v == Whole(disk')
<1>1. ~ failed => clean /\ ~ lost
  BY DEF Row
<1>2. ~ lost => TrueRow(disk') /\ (\/ v.result = "error" /\ failed
                                   \/ v.result = "end" /\ Len(v.out) = total')
  OBVIOUS
<1>3. v = Whole(disk')
  OBVIOUS
<1> HIDE DEF v
<1>4. ~ lost' => TrueRow(disk')
  BY <1>2
<1>5. ~ lost' /\ ~ cut' => v.result = "error" \/ (~ started' /\ v.result = "end" /\ Len(v.out) = total')
  BY <1>2
<1>6. (~ failed' => clean' /\ ~ lost') /\ (~ failed' /\ ~ cut' => v.result # "error")
  BY <1>1, <1>2
<1> QED BY <1>3, <1>4, <1>5, <1>6, RowIs, Zenon

LEMMA SkippableRow ==
  ASSUME Calling, FileTypes, Row, AppendSkippable
  PROVE  disk' \in Seq(Units) /\ Row'
<1> DEFINE w == Whole(disk)
<1>0. disk \in Seq(Units) /\ ~ cut /\ ~ started
  BY DEF FileTypes, Calling, AppendSkippable
<1>1. /\ disk' = disk \o << SkippableUnit >> /\ total' = total /\ failed' = failed /\ lost' = lost
      /\ started' = started /\ has' = has /\ clean' = clean
  <2>1. disk' = Append(disk, SkippableUnit)
    BY DEF AppendSkippable
  <2>2. SkippableUnit \in Units
    BY UnitTypes
  <2>3. \A u \in Units : Append(disk, u) = disk \o << u >>
    BY <1>0, SMT
  <2> QED BY <2>1, <2>2, <2>3 DEF AppendSkippable, vars
<1>2. SkippableUnit \in Units /\ SkippableUnit.kind = "skippable"
  BY UnitTypes DEF SkippableUnit
<1>3. disk \o << SkippableUnit >> \in Seq(Units)
  BY <1>0, <1>2, OneMore
<1>4. ASSUME ~ lost
      PROVE  /\ TrueRow(disk')
             /\ \/ Whole(disk').result = "error" /\ failed
                \/ Whole(disk').result = "end" /\ Len(Whole(disk').out) = total'
  <2>1. /\ TrueRow(disk)
        /\ \/ w.result = "error" /\ failed
           \/ w.result = "end" /\ Len(w.out) = total
           \/ failed /\ ~ has /\ w.open /\ w.result = "more"
    BY <1>0, <1>4, LeftRow, Zenon
  <2>2. CASE w.result = "error" /\ failed
    <3>1. << SkippableUnit >> \in Seq(Units)
      BY <1>2, SMT
    <3> QED BY <1>0, <1>1, <2>1, <2>2, <3>1, ErrorRow
  <2>3. CASE w.result = "end" /\ Len(w.out) = total
    BY <1>0, <1>1, <2>1, <2>3, SkippableWritten
  <2>4. CASE failed /\ ~ has /\ w.open /\ w.result = "more"
    BY <1>0, <1>1, <1>2, <2>1, <2>4, Misplaced
  <2> HIDE DEF w
  <2> QED BY <2>1, <2>2, <2>3, <2>4
<1> QED BY <1>0, <1>1, <1>3, <1>4, AddedRow

LEMMA OneShotRow ==
  ASSUME Calling, FileTypes, Row, NEW p \in Choices, NEW n \in 0 .. MaxContent, CompressOneShot(n, p)
  PROVE  disk' \in Seq(Units) /\ Row' /\ total' \in Nat
<1> DEFINE w == Whole(disk)
<1> DEFINE q == OneShotPrefs(n, p)
<1> DEFINE size == q.size
<1> DEFINE r == OneShotReturned(n, p)
<1> DEFINE blocks == UpdateBlocks(OneShotBegun(n, p), 0, n)
<1>0. /\ disk \in Seq(Units) /\ ~ cut /\ ~ started /\ total \in Nat /\ n \in Nat /\ MaxContent \in Nat
      /\ 0 \in Nat /\ 0 + n = n /\ total + n \in Nat
  <2>1. MaxContent \in Nat
    BY ClassAssumption
  <2>2. total \in Nat /\ disk \in Seq(Units) /\ ~ cut /\ ~ started
    BY DEF FileTypes, Calling, CompressOneShot
  <2> QED BY <2>1, <2>2, SMT
<1>1. /\ disk' = disk \o UnitsOf(r, size, total) /\ total' = total + n /\ failed' = failed /\ lost' = lost
      /\ started' = started /\ has' = has /\ clean' = clean
  BY Zenon DEF CompressOneShot, vars
<1>2. size \in Nat /\ size \in {0, n}
  BY <1>0, OneShotPrefsAre
<1>3. r.parts = {"header", "blocks", "footer"} /\ r.blocks = blocks
  BY <1>0, OneShotRight
<1>4. Sequenced(blocks, 0) /\ CarriedBy(blocks) = n
  BY <1>0, OneShotSequenced, OneShotBlocks
<1> HIDE DEF r, blocks, size
<1>5. Sequenced(r.blocks, 0)
  BY <1>3, <1>4
<1> DEFINE h == << HeaderUnit(size) >>
<1> DEFINE b == Placed(blocks, total)
<1> DEFINE e == << EndUnit >>
<1> DEFINE x == disk \o h
<1> DEFINE y == x \o b
<1>6. disk \o UnitsOf(r, size, total) = ((disk \o h) \o Placed(r.blocks, total)) \o e
  BY <1>0, <1>2, <1>3, <1>5, WholeFrame, ZenonT(60)
<1>7. disk' = y \o e
  BY <1>1, <1>3, <1>6
<1>8. HeaderUnit(size) \in Units /\ HeaderUnit(size).kind = "header" /\ EndUnit \in Units
  BY <1>2, UnitTypes DEF HeaderUnit
<1>9. h \in Seq(Units) /\ b \in Seq(Units) /\ e \in Seq(Units)
  <2>1. b \in Seq(Units)
    BY <1>0, <1>4, PlacedIs
  <2> QED BY <1>8, <2>1, SMT
<1>10. x \in Seq(Units) /\ y \in Seq(Units) /\ y \o e \in Seq(Units)
  <2>1. \A s \in Seq(Units), t \in Seq(Units) : s \o t \in Seq(Units)
    BY Appended
  <2> HIDE DEF h, b, e
  <2> QED BY <1>0, <1>9, <2>1
<1>11. ASSUME ~ lost
       PROVE  /\ TrueRow(disk')
              /\ \/ Whole(disk').result = "error" /\ failed
                 \/ Whole(disk').result = "end" /\ Len(Whole(disk').out) = total'
  <2>1. /\ TrueRow(disk)
        /\ \/ w.result = "error" /\ failed
           \/ w.result = "end" /\ Len(w.out) = total
           \/ failed /\ ~ has /\ w.open /\ w.result = "more"
    BY <1>0, <1>11, LeftRow, Zenon
  <2>2. ASSUME Whole(x).result = "error", TrueRow(x), failed
        PROVE  TrueRow(disk') /\ Whole(disk').result = "error"
    <3> HIDE DEF x, b, e
    <3>1. Whole(y) = Whole(x) /\ TrueRow(y)
      BY <1>9, <1>10, <2>2, ErrorRow
    <3>2. Whole(y).result = "error"
      BY <2>2, <3>1
    <3> HIDE DEF y
    <3>3. Whole(y \o e) = Whole(y) /\ TrueRow(y \o e)
      BY <1>9, <1>10, <3>1, <3>2, ErrorRow
    <3> QED BY <1>7, <3>2, <3>3
  <2>3. CASE w.result = "error" /\ failed
    <3>1. Whole(x) = w /\ TrueRow(x)
      <4> HIDE DEF h
      <4> QED BY <1>0, <1>9, <2>1, <2>3, ErrorRow
    <3>2. Whole(x).result = "error"
      BY <2>3, <3>1
    <3> HIDE DEF x
    <3> QED BY <2>2, <2>3, <3>1, <3>2
  <2>4. CASE failed /\ ~ has /\ w.open /\ w.result = "more"
    <3>1. Whole(x).result = "error" /\ TrueRow(x)
      BY <1>0, <1>8, <2>1, <2>4, Misplaced
    <3> HIDE DEF x
    <3> QED BY <2>2, <2>4, <3>1
  <2>5. CASE w.result = "end" /\ Len(w.out) = total
    <3>1. OpenAt(Whole(x), size, 0, total) /\ TrueRow(x)
      BY <1>0, <1>2, <2>1, <2>5, HeaderWritten
    <3>2. total + 0 = total
      BY <1>0, SMT
    <3>3. OpenAt(Whole(x), size, 0, total + 0)
      BY <3>1, <3>2
    <3> HIDE DEF x
    <3> DEFINE row == (x \o Placed(blocks, total)) \o << EndUnit >>
    <3>4. /\ Len(Whole(row).out) = total + 0 + CarriedBy(blocks) /\ (TrueRow(x) => TrueRow(row))
          /\ Whole(row).result = IF size > 0 /\ size # 0 + CarriedBy(blocks) THEN "error" ELSE "end"
      <4>1. x \in Seq(Units) /\ 0 \in Nat /\ total \in Nat /\ Sequenced(blocks, 0)
        BY <1>0, <1>4, <1>10
      <4> QED BY <3>3, <4>1, FrameClosed, ZenonT(60)
    <3>5. /\ Len(Whole(disk').out) = total + 0 + CarriedBy(blocks) /\ TrueRow(disk')
          /\ Whole(disk').result = IF size > 0 /\ size # 0 + CarriedBy(blocks) THEN "error" ELSE "end"
      <4>1. disk' = row
        BY <1>7
      <4> HIDE DEF row
      <4> QED BY <3>1, <3>4, <4>1
    <3>6. ~ (size > 0 /\ size # 0 + CarriedBy(blocks)) /\ total + 0 + CarriedBy(blocks) = total + n
      <4>1. size = 0 \/ size = 0 + CarriedBy(blocks)
        BY <1>0, <1>2, <1>4
      <4>2. ~ (0 > 0)
        BY SMT
      <4> QED BY <1>4, <3>2, <4>1, <4>2
    <3> QED BY <1>1, <3>5, <3>6
  <2> HIDE DEF w
  <2> QED BY <2>1, <2>3, <2>4, <2>5
<1>12. disk' \in Seq(Units) /\ total' \in Nat
  BY <1>0, <1>1, <1>7, <1>10
<1> QED BY <1>0, <1>1, <1>11, <1>12, AddedRow

\* Nothing that is written is torn.
LEMMA WrittenWhole ==
  ASSUME NEW r, NEW size \in Nat, NEW from \in Nat, NEW start \in Nat, Sequenced(r.blocks, start),
         NEW units \in Seq(Intact)
  PROVE  units \o UnitsOf(r, size, from) \in Seq(Intact)
<1> DEFINE t == UnitsOf(r, size, from)
<1> DEFINE b == Placed(r.blocks, from)
<1> DEFINE x == IF "header" \in r.parts THEN << HeaderUnit(size) >> ELSE << >>
<1> DEFINE y == IF "footer" \in r.parts THEN << EndUnit >> ELSE << >>
<1>1. t = (x \o b) \o y
  BY Zenon DEF UnitsOf
<1>2. b \in Seq(Intact)
  <2>1. b \in Seq(Units) /\ Len(b) = Len(r.blocks) /\ \A k \in 1 .. Len(r.blocks) : b[k].kind = "block"
    BY PlacedIs
  <2> HIDE DEF b
  <2>2. \A k \in 1 .. Len(b) : b[k] \in Units /\ b[k].kind = "block"
    BY <2>1, ElementOfSeq
  <2>3. \A k \in 1 .. Len(b) : b[k] \in Intact
    BY <2>2 DEF Intact
  <2>4. Len(b) \in Nat /\ b = [k \in 1 .. Len(b) |-> b[k]]
    BY <2>1, LenProperties
  <2> QED BY <2>3, <2>4, SMT
<1>3. << HeaderUnit(size) >> \in Seq(Intact) /\ << EndUnit >> \in Seq(Intact) /\ << >> \in Seq(Intact)
  <2>1. HeaderUnit(size) \in Units /\ EndUnit \in Units
    BY UnitTypes
  <2>2. HeaderUnit(size) \in Intact /\ EndUnit \in Intact
    BY <2>1 DEF Intact, HeaderUnit, EndUnit
  <2>3. \A u \in Intact : << u >> \in Seq(Intact)
    BY SMT
  <2> QED BY <2>2, <2>3, EmptySeq
<1>4. x \in Seq(Intact) /\ y \in Seq(Intact)
  BY <1>3, Zenon
<1> HIDE DEF t, b, x, y
<1>5. \A p \in Seq(Intact), q \in Seq(Intact) : p \o q \in Seq(Intact)
  BY Appended
<1>6. t \in Seq(Intact)
  BY <1>1, <1>2, <1>4, <1>5
<1> QED BY <1>5, <1>6 DEF t

\* The blocks a call returns are a sequence.
LEMMA BlocksReturned ==
  ASSUME IInv, Calling, FileTypes, ret'.status = "ok",
         \/ BeginFrame
         \/ CompressData
         \/ has /\ flush
  PROVE  \E start \in Nat : Sequenced(ret'.blocks, start)
<1>0. 0 \in Nat /\ 0 \in Int
  BY SMT
<1>1. CASE BeginFrame
  <2>1. begin(prefs) /\ ~ started
    BY <1>1 DEF BeginFrame, Calling
  <2>2. BeginDone(prefs)
    BY <2>1, BeginOutcome
  <2>3. ret'.blocks = << >>
    BY <2>2 DEF BeginDone, HeaderReturned, Returned
  <2> QED BY <1>0, <2>3, NoBlocks, Zenon
<1>2. CASE CompressData
  <2>1. compress(todo) /\ started /\ has /\ todo \in 0 .. MaxContent
    BY <1>2 DEF CompressData, Calling
  <2>2. todo \in Nat
    BY <2>1, SMT
  <2>3. ~ ChunkRefused(cctx, todo) /\ ret' = ChunkReturned(cctx, accepted, todo)
    BY <2>1, CompressOutcome
  <2>4. ret'.blocks = UpdateBlocks(cctx, accepted, todo)
    BY <2>3 DEF ChunkReturned, Returned
  <2>5. accepted - cctx.tmpInSize \in Nat /\ Sequenced(UpdateBlocks(cctx, accepted, todo), accepted - cctx.tmpInSize)
    BY <2>1, <2>2, <2>3, CompressedBlocks
  <2>6. Sequenced(ret'.blocks, accepted - cctx.tmpInSize)
    BY <2>4, <2>5
  <2> QED BY <2>5, <2>6
<1>3. CASE has /\ flush
  <2>1. ret' = FlushReturned(cctx, TRUE)
    BY <1>3, FlushOutcome DEF FlushReturns
  <2>2. ret'.blocks = FlushBlocks(cctx)
    BY <2>1 DEF FlushReturned, Returned
  <2>3. CASE cctx.cStage = 1 /\ started
    <3>1. accepted - cctx.tmpInSize \in Nat /\ Sequenced(FlushBlocks(cctx), accepted - cctx.tmpInSize)
      BY <1>3, <2>3, FlushedBlocks
    <3> QED BY <2>2, <3>1, Zenon
  <2>4. CASE ~ (cctx.cStage = 1 /\ started)
    <3>1. ret'.blocks = << >>
      BY <1>3, <2>2, <2>4, FlushedBlocks
    <3> QED BY <1>0, <3>1, NoBlocks, Zenon
  <2> QED BY <2>3, <2>4
<1> QED BY <1>1, <1>2, <1>3

\* A file nothing has torn.
LEMMA IntactIs ==
  /\ \A units \in Seq(Intact) : units \in Seq(Units) /\ \A i \in 1 .. Len(units) : units[i].kind # "torn"
  /\ \A u \in Intact : << u >> \in Seq(Intact)
  /\ SkippableUnit \in Intact
<1>1. ASSUME NEW units \in Seq(Intact)
      PROVE  units \in Seq(Units) /\ \A i \in 1 .. Len(units) : units[i].kind # "torn"
  <2>1. \A i \in 1 .. Len(units) : units[i] \in Intact
    BY ElementOfSeq
  <2>2. \A i \in 1 .. Len(units) : units[i] \in Units /\ units[i].kind # "torn"
    BY <2>1 DEF Intact
  <2>3. Len(units) \in Nat /\ units = [i \in 1 .. Len(units) |-> units[i]]
    BY LenProperties
  <2>4. units \in Seq(Units)
    BY <2>2, <2>3, SMT
  <2> QED BY <2>2, <2>4
<1>2. \A u \in Intact : << u >> \in Seq(Intact)
  BY SMT
<1>3. SkippableUnit \in Intact
  <2>1. SkippableUnit \in Units
    BY UnitTypes
  <2> QED BY <2>1 DEF Intact, SkippableUnit
<1> QED BY <1>1, <1>2, <1>3

\* A writing call leaves the file intact.
LEMMA WritingIntact ==
  ASSUME IInv, Calling, FileTypes, mode = "write",
         BeginFrame \/ CompressData \/ FlushFrame
  PROVE  disk' \in Seq(Intact)
<1>0. disk \in Seq(Intact) /\ prefs.size \in Nat /\ total \in Nat /\ base \in Nat
  BY DEF FileTypes, Calling
<1>1. ASSUME ret'.status = "ok", NEW from \in Nat, NEW kept \in BOOLEAN, FpWrite(kept, from),
             BeginFrame \/ CompressData \/ (has /\ flush)
      PROVE  disk' \in Seq(Intact)
  <2>1. PICK start \in Nat : Sequenced(ret'.blocks, start)
    BY <1>1, BlocksReturned
  <2>2. disk \o UnitsOf(ret', prefs.size, from) \in Seq(Intact)
    BY <1>0, <1>1, <2>1, WrittenWhole
  <2>3. disk' = IF kept THEN disk \o UnitsOf(ret', prefs.size, from) ELSE disk
    BY <1>1 DEF FpWrite
  <2> QED BY <1>0, <2>2, <2>3, Zenon
<1>2. NotWritten => disk' \in Seq(Intact)
  BY <1>0 DEF NotWritten
<1>3. CASE BeginFrame
  <2>1. CASE ret'.status = "ok"
    <3>1. PICK kept \in BOOLEAN : FpWrite(kept, total)
      BY <1>3, <2>1, Zenon DEF BeginFrame, Outages
    <3> QED BY <1>0, <1>1, <1>3, <2>1, <3>1
  <2>2. CASE ret'.status # "ok"
    BY <1>2, <1>3, <2>2, Zenon DEF BeginFrame
  <2> QED BY <2>1, <2>2
<1>4. CASE CompressData
  <2>1. CASE ret'.status = "ok"
    <3>1. PICK kept \in BOOLEAN : FpWrite(kept, base)
      BY <1>4, <2>1, Zenon DEF CompressData, Outages
    <3> QED BY <1>0, <1>1, <1>4, <2>1, <3>1
  <2>2. CASE ret'.status # "ok"
    BY <1>2, <1>4, <2>2, Zenon DEF CompressData
  <2> QED BY <2>1, <2>2
<1>5. CASE FlushFrame
  <2>1. CASE /\ has /\ flush
             /\ IF ret'.status = "ok" THEN \E kept \in Outages : FpWrite(kept, base) ELSE NotWritten
    <3>1. CASE ret'.status = "ok"
      <4>1. PICK kept \in BOOLEAN : FpWrite(kept, base)
        BY <2>1, <3>1, Zenon DEF Outages
      <4> QED BY <1>0, <1>1, <2>1, <3>1, <4>1
    <3>2. CASE ret'.status # "ok"
      BY <1>2, <2>1, <3>2, Zenon
    <3> QED BY <3>1, <3>2
  <2>2. CASE UNCHANGED <<vars, disk, failed, lost>>
    BY <1>0, <2>2
  <2> QED BY <1>5, <2>1, <2>2, Zenon DEF FlushFrame
<1> QED BY <1>3, <1>4, <1>5

\* And one that was cut is torn at its end at most.
LEMMA CutStep ==
  ASSUME FileTypes, Row, NEW k \in 0 .. Len(disk) - 1, NEW torn \in BOOLEAN, CutShort(k, torn)
  PROVE  /\ disk' \in Seq(Units) /\ Row'
         /\ \A i \in 1 .. Len(disk') : disk'[i].kind = "torn" => i = Len(disk')
<1> DEFINE front == SubSeq(disk, 1, k)
<1> DEFINE tail == IF torn THEN << TornUnit >> ELSE << >>
<1>1. /\ disk' = front \o tail /\ cut' = TRUE /\ ~ cut /\ disk \in Seq(Intact) /\ disk \in Seq(Units)
      /\ started' = started /\ has' = has /\ clean' = clean /\ failed' = failed /\ lost' = lost
  BY Zenon DEF CutShort, vars, FileTypes
<1>2. front \o tail \in Seq(Units) /\ (TrueRow(disk) => TrueRow(front \o tail))
  BY <1>1, CutRow
<1>3. ~ lost => TrueRow(disk)
  BY DEF Row
<1>4. ~ failed => clean /\ ~ lost
  BY DEF Row
<1>5. Row'
  <2> HIDE DEF front, tail
  <2>1. ~ lost' => TrueRow(disk')
    BY <1>1, <1>2, <1>3
  <2>2. ~ failed' => clean' /\ ~ lost'
    BY <1>1, <1>4
  <2> QED BY <1>1, <2>1, <2>2, RowIs, Zenon
<1>6. ASSUME NEW i \in 1 .. Len(disk'), disk'[i].kind = "torn"
      PROVE  i = Len(disk')
  <2>1. Len(disk) \in Nat /\ k \in Nat /\ k < Len(disk)
    <3>1. Len(disk) \in Nat
      BY <1>1, LenProperties
    <3> QED BY <3>1, SMT
  <2>2. front \in Seq(Intact)
    <3>1. \A j \in 1 .. k : j \in 1 .. Len(disk)
      BY <2>1, SMT
    <3>2. \A j \in 1 .. k : disk[j] \in Intact
      BY <1>1, <3>1, ElementOfSeq
    <3>3. front = [j \in 1 .. k |-> disk[j]]
      BY <1>1, <2>1, SMT
    <3> QED BY <2>1, <3>2, <3>3, SMT
  <2>3. \A j \in 1 .. Len(front) : front[j].kind # "torn"
    BY <2>2, IntactIs
  <2>4. front \in Seq(Units) /\ Len(front) \in Nat
    BY <2>2, IntactIs, LenProperties
  <2> HIDE DEF front
  <2>5. CASE torn
    <3>1. disk' = front \o << TornUnit >>
      BY <1>1, <2>5
    <3>2. TornUnit \in Units
      BY UnitTypes
    <3>3. Len(disk') = Len(front) + 1 /\ \A j \in 1 .. Len(front) : disk'[j] = front[j]
      BY <2>4, <3>1, <3>2, SMT
    <3>4. i \in 1 .. Len(front) => FALSE
      BY <1>6, <2>3, <3>3
    <3> DEFINE m == Len(disk')
    <3>5. i \in 1 .. m /\ m = Len(front) + 1
      BY <1>6, <3>3
    <3> HIDE DEF m
    <3>6. i = m
      BY <2>4, <3>4, <3>5, SMT
    <3> QED BY <3>6 DEF m
  <2>6. CASE ~ torn
    <3>1. disk' = front
      BY <1>1, <2>4, <2>6, ConcatEmptySeq
    <3> QED BY <1>6, <2>3, <3>1
  <2> QED BY <2>5, <2>6
<1> QED BY <1>1, <1>2, <1>5, <1>6

\* What a writing call does to the rest.
LEMMA WritingTypes ==
  ASSUME IInv, NeverTooSmall', Calling, FileTypes, Row, mode = "write",
         BeginFrame \/ CompressData \/ FlushFrame
  PROVE  FileTypes' /\ Row'
<1>1. disk' \in Seq(Intact) /\ disk' \in Seq(Units)
  BY WritingIntact, IntactIs
<1>2. \A i \in 1 .. Len(disk') : disk'[i].kind # "torn"
  BY <1>1, IntactIs
<1>3. Row' /\ total' \in Nat /\ base' \in Nat
  <2>1. CASE BeginFrame
    <3>1. total' = total /\ (base' = total \/ base' = base)
      BY <2>1, Zenon DEF BeginFrame
    <3> QED BY <2>1, <3>1, BeginRow DEF FileTypes
  <2>2. CASE CompressData
    <3>1. base' = base
      BY <2>2, Zenon DEF CompressData
    <3> QED BY <2>2, <3>1, CompressRow DEF FileTypes
  <2>3. CASE FlushFrame
    <3>1. base' = base /\ total' = total
      BY <2>3, Zenon DEF FlushFrame
    <3> QED BY <2>3, <3>1, FlushRow DEF FileTypes
  <2> QED BY <2>1, <2>2, <2>3
<1>4. prefs' = prefs /\ opens' = opens /\ cut' = cut
  BY Zenon DEF BeginFrame, CompressData, FlushFrame
<1>5. failed' \in BOOLEAN /\ lost' \in BOOLEAN
  <2>1. failed \in BOOLEAN /\ lost \in BOOLEAN
    BY DEF FileTypes
  <2>2. ASSUME NEW kept, NEW from, FpWrite(kept, from) PROVE failed' \in BOOLEAN /\ lost' \in BOOLEAN
    BY <2>2 DEF FpWrite
  <2>3. NotWritten => failed' \in BOOLEAN /\ lost' \in BOOLEAN
    BY DEF NotWritten
  <2>4. \/ \E kept \in Outages, from \in {total, base} : FpWrite(kept, from)
        \/ NotWritten
        \/ failed' = failed /\ lost' = lost
    BY Zenon DEF BeginFrame, CompressData, FlushFrame
  <2> QED BY <2>1, <2>2, <2>3, <2>4
<1>6. prefs.size \in Nat /\ prefs \in Choices /\ opens \in Nat /\ cut \in BOOLEAN
  BY DEF FileTypes
<1> QED BY <1>1, <1>2, <1>3, <1>4, <1>5, <1>6 DEF FileTypes

\* Steps that leave the file alone.
LEMMA SameTypes ==
  ASSUME FileTypes, Row, prefs'.size \in Nat, mode' = "write" => prefs' \in Choices,
         opens' \in Nat, base' \in Nat, ~ started \/ (prefs' = prefs /\ base' = base),
         UNCHANGED <<has, cctx, started, accepted, sent, clean, disk, total, failed, lost, cut>>
  PROVE  FileTypes' /\ Row'
<1>1. FileTypes'
  BY DEF FileTypes
<1>2. CASE prefs' = prefs /\ base' = base
  <2>1. UNCHANGED <<has, cctx, started, accepted, sent, clean, prefs, disk, total, base, failed, lost, cut>>
    BY <1>2
  <2> QED BY <1>1, <2>1, SameRow
<1>3. CASE ~ started
  <2> DEFINE w == Whole(disk)
  <2>1. /\ has' = has /\ started' = started /\ clean' = clean /\ disk' = disk /\ total' = total
        /\ failed' = failed /\ lost' = lost /\ cut' = cut
    OBVIOUS
  <2>2. /\ ~ lost => TrueRow(disk)
        /\ ~ lost /\ ~ cut => w.result = "error" \/ Underway(w) \/ Complete(w) \/ Abandoned(w)
        /\ ~ failed => clean /\ ~ lost
        /\ ~ failed /\ ~ cut => w.result # "error"
    BY Zenon DEF Row, InFile
  <2>3. ~ Underway(w)
    BY <1>3 DEF Underway
  <2>4. w = Whole(disk')
    BY <2>1
  <2> HIDE DEF w
  <2>5. ~ lost' /\ ~ cut' =>
          \/ w.result = "error"
          \/ ~ started' /\ w.result = "end" /\ Len(w.out) = total'
          \/ ~ started' /\ ~ has' /\ failed' /\ w.open /\ w.result = "more"
    BY <2>1, <2>2, <2>3 DEF Complete, Abandoned
  <2>6. (~ lost' => TrueRow(disk')) /\ (~ failed' => clean' /\ ~ lost') /\ (~ failed' /\ ~ cut' => w.result # "error")
    BY <2>1, <2>2
  <2> QED BY <1>1, <2>4, <2>5, <2>6, RowIs, Zenon
<1> QED BY <1>1, <1>2, <1>3

LEMMA FileStays ==
  ASSUME IInv, NeverTooSmall', Calling, FileTypes, Row, FileNext
  PROVE  FileTypes' /\ Row'
<1>0. /\ disk \in Seq(Units) /\ total \in Nat /\ base \in Nat /\ opens \in Nat
      /\ failed \in BOOLEAN /\ lost \in BOOLEAN /\ cut \in BOOLEAN /\ prefs.size \in Nat
      /\ ~ cut => disk \in Seq(Intact)
      /\ \A i \in 1 .. Len(disk) : disk[i].kind = "torn" => i = Len(disk)
  BY DEF FileTypes
<1>1. ASSUME NEW p \in Choices, open(p) PROVE FileTypes' /\ Row'
  <2>1. p.size \in Nat
    BY ClassAssumption DEF Preferences
  <2>2. /\ ~ started /\ prefs' = p /\ opens' = opens + 1 /\ base' = base
        /\ UNCHANGED <<has, cctx, started, accepted, sent, clean, disk, total, failed, lost, cut>>
    BY <1>1, Zenon DEF open, vars, Calling
  <2>3. opens + 1 \in Nat
    BY <1>0, SMT
  <2> QED BY <1>0, <2>1, <2>2, <2>3, SameTypes
<1>2. CASE BeginFrame
  BY <1>2, WritingTypes DEF BeginFrame, Calling
<1>3. ASSUME NEW n \in 0 .. MaxContent, write(n) PROVE FileTypes' /\ Row'
  <2>1. /\ prefs' = prefs /\ opens' = opens /\ base' = base /\ mode' = mode
        /\ UNCHANGED <<has, cctx, started, accepted, sent, clean, disk, total, failed, lost, cut>>
    BY <1>3, Zenon DEF write, vars
  <2> QED BY <1>0, <2>1, SameTypes DEF FileTypes
<1>4. CASE CompressData
  BY <1>4, WritingTypes DEF CompressData, Calling
<1>5. CASE flushFile
  BY <1>5, WritingTypes DEF flushFile
<1>6. CASE close
  BY <1>6, WritingTypes DEF close, FinalFlush
<1>7. CASE Closed
  <2>1. disk' \in Seq(Units) /\ Row'
    BY <1>7, ClosedRow
  <2>2. /\ prefs' = NewContext.prefs /\ opens' = opens /\ base' = 0 /\ mode' = "closed"
        /\ UNCHANGED <<disk, total, failed, lost, cut>>
    BY <1>7, Zenon DEF Closed
  <2>3. NewContext.prefs.size \in Nat /\ 0 \in Nat
    BY NewContextTypes, SMT DEF NewContext
  <2> QED BY <1>0, <2>1, <2>2, <2>3 DEF FileTypes
<1>8. ASSUME NEW p \in Choices, NEW n \in 0 .. MaxContent, CompressOneShot(n, p) PROVE FileTypes' /\ Row'
  <2>1. disk' \in Seq(Units) /\ Row' /\ total' \in Nat
    BY <1>8, OneShotRow
  <2>2. /\ disk' = disk \o UnitsOf(OneShotReturned(n, p), OneShotPrefs(n, p).size, total)
        /\ opens' = opens + 1 /\ ~ cut /\ mode' = mode
        /\ UNCHANGED <<prefs, base, failed, lost, cut>>
    BY <1>8, Zenon DEF CompressOneShot
  <2>3. opens + 1 \in Nat /\ n \in Nat /\ 0 \in Nat
    <3>1. MaxContent \in Nat
      BY ClassAssumption
    <3> QED BY <1>0, <3>1, SMT
  <2>4. OneShotPrefs(n, p).size \in Nat
    BY <2>3, OneShotPrefsAre
  <2>5. Sequenced(OneShotReturned(n, p).blocks, 0)
    <3>1. OneShotReturned(n, p).blocks = UpdateBlocks(OneShotBegun(n, p), 0, n)
      BY <2>3, OneShotRight
    <3> QED BY <2>3, <3>1, OneShotSequenced
  <2>6. disk' \in Seq(Intact)
    BY <1>0, <2>2, <2>3, <2>4, <2>5, WrittenWhole
  <2>7. \A i \in 1 .. Len(disk') : disk'[i].kind # "torn"
    BY <2>6, IntactIs
  <2>8. mode = "closed"
    BY <1>8 DEF CompressOneShot
  <2> QED BY <1>0, <2>1, <2>2, <2>3, <2>6, <2>7, <2>8 DEF FileTypes
<1>9. CASE AppendSkippable
  <2>1. disk' \in Seq(Units) /\ Row'
    BY <1>9, SkippableRow
  <2>2. /\ disk' = Append(disk, SkippableUnit)
        /\ opens' = opens + 1 /\ ~ cut /\ mode' = mode /\ mode = "closed"
        /\ UNCHANGED <<prefs, base, failed, lost, cut, total>>
    BY <1>9, Zenon DEF AppendSkippable
  <2>3. opens + 1 \in Nat
    BY <1>0, SMT
  <2>4. disk' \in Seq(Intact)
    <3>1. SkippableUnit \in Intact
      BY IntactIs
    <3>2. \A s \in Seq(Intact), u \in Intact : Append(s, u) \in Seq(Intact)
      BY SMT
    <3> QED BY <1>0, <2>2, <3>1, <3>2
  <2>5. \A i \in 1 .. Len(disk') : disk'[i].kind # "torn"
    BY <2>4, IntactIs
  <2> QED BY <1>0, <2>1, <2>2, <2>3, <2>4, <2>5 DEF FileTypes
<1>10. ASSUME NEW k \in 0 .. Len(disk) - 1, NEW torn \in BOOLEAN, CutShort(k, torn) PROVE FileTypes' /\ Row'
  <2>1. /\ disk' \in Seq(Units) /\ Row'
        /\ \A i \in 1 .. Len(disk') : disk'[i].kind = "torn" => i = Len(disk')
    BY <1>10, CutStep
  <2>2. /\ cut' = TRUE /\ mode' = mode /\ mode = "closed"
        /\ UNCHANGED <<prefs, base, failed, lost, opens, total>>
    BY <1>10, Zenon DEF CutShort
  <2> QED BY <1>0, <2>1, <2>2 DEF FileTypes
<1>11. ASSUME UNCHANGED <<vars, prefs, disk, total, base, opens, failed, lost, cut>>, mode' # "write"
       PROVE  FileTypes' /\ Row'
  <2>1. /\ prefs' = prefs /\ opens' = opens /\ base' = base
        /\ UNCHANGED <<has, cctx, started, accepted, sent, clean, disk, total, failed, lost, cut>>
    BY <1>11, Zenon DEF vars
  <2> QED BY <1>0, <1>11, <2>1, SameTypes
<1>12. ASSUME NEW raw \in RawReads, OpenForReading(raw) PROVE FileTypes' /\ Row'
  BY <1>11, <1>12, Zenon DEF OpenForReading
<1>13. CASE CloseReader
  BY <1>11, <1>13, Zenon DEF CloseReader
<1>14. ASSUME UNCHANGED <<vars, writerVars>>, mode # "write" PROVE FileTypes' /\ Row'
  BY <1>11, <1>14, Zenon DEF writerVars
<1>15. ASSUME NEW size \in ReadSizes, read(size) PROVE FileTypes' /\ Row'
  BY <1>14, <1>15 DEF read, Idle, Reads
<1>16. ASSUME NEW offset \in Offsets, seek(offset) PROVE FileTypes' /\ Row'
  BY <1>14, <1>16 DEF seek, Idle, Reads
<1>17. CASE SkipData
  BY <1>14, <1>17 DEF SkipData, Idle, Reads
<1>18. CASE ReadStep
  <2>1. Reads
    BY <1>18 DEF ReadStep, Decompress, TakeUnit, DecompressReturns, ReadEnd
  <2>2. rd # NewReader(1)
    <3>1. NewReader(1).want = 0 /\ NewReader(1).busy = FALSE
      BY DEF NewReader
    <3>2. rd.want > 0 \/ rd.busy
      BY <1>18 DEF ReadStep, Decompress, TakeUnit, DecompressReturns, ReadEnd, Looping
    <3>3. ~ (0 > 0)
      BY SMT
    <3> QED BY <3>1, <3>2, <3>3
  <2>3. mode # "write"
    BY <2>2 DEF Calling
  <2> QED BY <1>14, <2>1, <2>3 DEF Reads
<1>19. CASE DecompressOneShot
  BY <1>14, <1>19 DEF DecompressOneShot
<1> QED BY <1>1, <1>2, <1>3, <1>4, <1>5, <1>6, <1>7, <1>8, <1>9, <1>10, <1>12, <1>13,
           <1>15, <1>16, <1>17, <1>18, <1>19, Zenon DEF FileNext

-----------------------------------------------------------------------------
(* The theorems.                                                           *)

LEMMA FileInitInv == FileInit => FInv
<1> SUFFICES ASSUME FileInit PROVE FInv
  OBVIOUS
<1>1. IInv /\ NeverTooSmall
  <2>1. Init
    BY DEF FileInit
  <2>2. ret = Raised("ok")
    BY <2>1 DEF Init
  <2>3. 0 <= 0
    BY SMT
  <2> QED BY <2>1, <2>2, <2>3, InitIInv DEF NeverTooSmall, Raised
<1>2. Calling
  BY DEF FileInit, Init, Calling
<1>3. disk = << >> /\ << >> \in Seq(Units) /\ << >> \in Seq(Intact) /\ Len(<< >>) = 0
  BY EmptySeq, SMT DEF FileInit
<1>4. FileTypes
  <2>1. 0 \in Nat /\ FALSE \in BOOLEAN
    BY SMT
  <2>2. prefs.size \in Nat
    BY <2>1 DEF FileInit, NewContext
  <2>3. \A i \in 1 .. Len(disk) : FALSE
    BY <1>3, SMT
  <2> QED BY <1>3, <2>1, <2>2, <2>3 DEF FileInit, FileTypes
<1>5. Row
  <2> DEFINE w == Whole(disk)
  <2>1. WholeTo(disk, 0).out = << >> /\ WholeTo(disk, 0).result = "end"
    BY WholeToStart, RoomyStartIs
  <2>2. w = WholeTo(disk, 0)
    BY <1>3 DEF Whole
  <2> HIDE DEF w
  <2>3. TrueTo(disk, 0)
    BY <1>3, <2>1, NoPositions, Zenon DEF TrueTo
  <2>4. TrueRow(disk)
    <3>1. \A k \in 0 .. 0 : k = 0
      BY SMT
    <3> QED BY <1>3, <2>3, <3>1, Zenon DEF TrueRow
  <2>5. ~ started /\ total = 0 /\ clean = TRUE /\ lost = FALSE
    BY DEF FileInit, Init
  <2>6. Complete(w)
    BY <1>3, <2>1, <2>2, <2>5, Zenon DEF Complete
  <2>7. w.result # "error"
    BY <2>1, <2>2
  <2> QED BY <2>4, <2>5, <2>6, <2>7, Zenon DEF Row, InFile, w
<1>6. ReaderRight
  <2>1. 1 \in Nat \ {0} /\ rd = NewReader(1) /\ disk \in Seq(Units)
    BY <1>3, SMT DEF FileInit
  <2> QED BY <2>1, NewReaderFits, Zenon DEF ReaderRight
<1> QED BY <1>1, <1>2, <1>4, <1>5, <1>6 DEF FInv

LEMMA FileNextInv == FInv /\ [FileNext]_fileVars => FInv'
<1> SUFFICES ASSUME FInv, [FileNext]_fileVars PROVE FInv'
  OBVIOUS
<1>1. IInv /\ NeverTooSmall /\ Calling /\ FileTypes /\ Row /\ ReaderRight
  BY DEF FInv
<1>2. CASE FileNext
  <2>1. IInv' /\ NeverTooSmall'
    BY <1>1, <1>2, CompressorStays
  <2>2. Calling'
    BY <1>1, <1>2, CallingStays
  <2>3. FileTypes' /\ Row'
    BY <1>1, <1>2, <2>1, FileStays
  <2>4. disk \in Seq(Units) /\ disk' \in Seq(Units)
    BY <1>1, <2>3 DEF FileTypes
  <2>5. ~ lost => TrueRow(disk)
    BY <1>1 DEF Row
  <2>6. ReaderRight'
    BY <1>1, <1>2, <2>4, <2>5, ReaderStays
  <2> QED BY <2>1, <2>2, <2>3, <2>6 DEF FInv
<1>3. CASE UNCHANGED fileVars
  <2>1. UNCHANGED <<has, cctx, started, accepted, sent, clean, prefs, disk, total, base, failed, lost, cut>>
    BY <1>3 DEF fileVars, vars, writerVars
  <2>2. UNCHANGED <<vars, mode, step, todo, opens, rd, shot>>
    BY <1>3 DEF fileVars, writerVars
  <2>3. IInv' /\ NeverTooSmall'
    BY <1>1, <2>2, NextIInv DEF vars, NeverTooSmall
  <2>4. Calling' /\ FileTypes'
    BY <1>1, <2>1, <2>2 DEF Calling, FileTypes
  <2>5. Row'
    BY <1>1, <2>1, SameRow
  <2>6. ReaderRight'
    BY <1>1, <2>1, <2>2 DEF ReaderRight
  <2> QED BY <2>3, <2>4, <2>5, <2>6 DEF FInv
<1> QED BY <1>2, <1>3

\* In every state the file is what the calls that wrote it made of it, and the
\* reader somewhere in it that a reader of all its units passes through.
THEOREM FileInvariant == FileSpec => []FInv
<1>1. FInv /\ [FileNext]_fileVars => FInv'
  BY FileNextInv
<1> QED BY FileInitInv, <1>1, PTL DEF FileSpec

\* A file that was opened, written, flushed and closed any number of times
\* without an exception is complete frames, and their content all that was given
\* (LZ4FrameFile.close and flush, lz4/frame/__init__.py:551, 745).
THEOREM FileIsWhole == FileSpec => []ClosedIsWhole
<1>1. FInv => ClosedIsWhole
  <2> SUFFICES ASSUME FInv, mode = "closed", ~ failed, ~ cut
               PROVE  Whole(disk).result = "end" /\ Whole(disk).out = Positions(0, total)
    BY DEF ClosedIsWhole
  <2> DEFINE w == Whole(disk)
  <2>1. Row /\ Calling /\ FileTypes
    BY DEF FInv
  <2>2. ~ started /\ ~ lost /\ disk \in Seq(Units)
    BY <2>1 DEF Row, Calling, FileTypes
  <2>3. /\ TrueRow(disk)
        /\ \/ w.result = "error" /\ failed
           \/ w.result = "end" /\ Len(w.out) = total
           \/ failed /\ ~ has /\ w.open /\ w.result = "more"
    BY <2>1, <2>2, LeftRow, Zenon
  <2>4. TrueOut(w)
    BY <2>2, <2>3, WholeIs
  <2> HIDE DEF w
  <2>5. w.result = "end" /\ Len(w.out) = total /\ w.out = Positions(0, Len(w.out))
    BY <2>3, <2>4 DEF TrueOut
  <2> QED BY <2>5 DEF w
<1> QED BY <1>1, FileInvariant, PTL

\* Whatever failed since, short of a write that did not reach the file, what a
\* read returns is what was given at its place, seeks included, and however the
\* reader's units and the sizes asked for cut the frames
\* (DecompressReader; LZ4FrameDecompressor.decompress, lz4/frame/__init__.py:388).
THEOREM WhatIsReadIsTrue == FileSpec => []ReadsBack
<1>1. FInv => ReadsBack
  BY DEF FInv, ReaderRight, DataIsTrue, ReadsBack
<1> QED BY <1>1, FileInvariant, PTL

\* The end is only reported where the last frame is complete and read to its
\* end, and only a file that is not complete frames raises
\* (DecompressReader.read; LZ4FrameDecompressor.eof and needs_input).
THEOREM TheEndIsHonest == FileSpec => []EndIsHonest
<1>1. FInv => EndIsHonest
  BY DEF FInv, ReaderRight, Honest, EndIsHonest
<1> QED BY <1>1, FileInvariant, PTL

\* No call a file makes of its compressor comes in an order Python or LZ4F refuses,
\* whatever has failed, except in a frame in which a call has already raised, until
\* the file is closed (LZ4FrameFile.write and flush, lz4/frame/__init__.py:731, 751;
\* LZ4FrameCompressor.flush, 278-284).
THEOREM FileCallsInOrder == FileSpec => InOrderUntilRaised
<1> DEFINE InOrder == ret'.status # "refused" /\ (ret'.status = "notStarted" => ~ clean)
<1>1. FileInit => SpoiltIfRefused
  BY DEF FileInit, Init, Raised, SpoiltIfRefused
<1>2. FInv /\ SpoiltIfRefused /\ [FileNext]_fileVars => SpoiltIfRefused' /\ [InOrder]_fileVars
  <2> SUFFICES ASSUME FInv, SpoiltIfRefused, [FileNext]_fileVars PROVE SpoiltIfRefused' /\ [InOrder]_fileVars
    OBVIOUS
  <2>1. CASE FileNext
    BY <2>1, CallsInOrder DEF FInv
  <2>2. CASE UNCHANGED fileVars
    BY <2>2 DEF fileVars, vars, SpoiltIfRefused
  <2> QED BY <2>1, <2>2
<1> HIDE DEF InOrder
<1>3. FileSpec => [][InOrder]_fileVars
  BY <1>1, <1>2, FileInvariant, PTL DEF FileSpec
<1> QED BY <1>3 DEF InOrderUntilRaised, InOrder

\* lz4.frame.compress has room for all it writes, and LZ4F needs no tmp buffer,
\* which the context on its stack has not got (LZ4F_compressFrame_usingCDict,
\* lz4libs/lz4frame.c:491).
THEOREM OneShotNeedsNoMore == FileSpec => []OneShotFits
<1>1. ASSUME shot' = NoShot PROVE OneShotFits'
  <2>1. /\ NoShot.ret.status = "ok" /\ NoShot.ret.written = 0 /\ NoShot.ret.cap = 0
        /\ NoShot.cctx.tmpInSize = 0 /\ DOMAIN NoShot.cctx.mem = {} /\ NoShot.cctx.dict.size = 0
    BY NoShotIs, NewContextTypes DEF Raised, NewContext, NoDict, Span
  <2>2. 0 <= 0 /\ ~ (0 > 0)
    BY SMT
  <2> QED BY <1>1, <2>1, <2>2 DEF OneShotFits
<1>2. FileInit => OneShotFits
  <2>1. /\ NoShot.ret.status = "ok" /\ NoShot.ret.written = 0 /\ NoShot.ret.cap = 0
        /\ NoShot.cctx.tmpInSize = 0 /\ DOMAIN NoShot.cctx.mem = {} /\ NoShot.cctx.dict.size = 0
    BY NoShotIs, NewContextTypes DEF Raised, NewContext, NoDict, Span
  <2>2. 0 <= 0 /\ ~ (0 > 0)
    BY SMT
  <2> QED BY <2>1, <2>2 DEF FileInit, OneShotFits
<1>3. ASSUME NEW p \in Choices, NEW n \in 0 .. MaxContent, CompressOneShot(n, p) PROVE OneShotFits'
  <2>1. n \in Nat
    <3>1. MaxContent \in Nat
      BY ClassAssumption
    <3> QED BY <3>1, SMT
  <2> DEFINE r == OneShotReturned(n, p)
  <2> DEFINE u == OneShotUpdated(n, p)
  <2>2. shot'.ret = r /\ shot'.cctx = u
    BY <1>3 DEF CompressOneShot
  <2>3. r.status = "ok" /\ r.written <= r.cap
    BY <2>1, OneShotRight
  <2>4. /\ u.tmpInSize = 0 /\ DOMAIN u.mem = {}
        /\ u.prefs.linked /\ u.dict.size > 0 => u.dict.in = "src"
    BY <2>1, OneShotUpdatedIs
  <2> HIDE DEF r, u
  <2> QED BY <2>2, <2>3, <2>4 DEF OneShotFits
<1>4. ASSUME OneShotFits, DecompressOneShot PROVE OneShotFits'
  <2>1. shot = NoShot
    BY <1>4 DEF DecompressOneShot
  <2>2. shot'.ret = shot.ret /\ shot'.cctx = shot.cctx
    BY <1>4, <2>1 DEF DecompressOneShot, NoShot
  <2> QED BY <1>4, <2>2 DEF OneShotFits
<1>5. ASSUME OneShotFits, UNCHANGED shot PROVE OneShotFits'
  BY <1>5 DEF OneShotFits
<1>6. OneShotFits /\ [FileNext]_fileVars => OneShotFits'
  <2> SUFFICES ASSUME OneShotFits, [FileNext]_fileVars PROVE OneShotFits'
    OBVIOUS
  <2>1. \/ shot' = NoShot
        \/ \E p \in Choices, n \in 0 .. MaxContent : CompressOneShot(n, p)
        \/ DecompressOneShot
        \/ UNCHANGED shot
    BY Zenon DEF FileNext, fileVars, open, BeginFrame, write, CompressData, FlushFrame, flushFile, close, FinalFlush,
                 Closed, AppendSkippable, CutShort, OpenForReading, CloseReader, read, seek, SkipData,
                 ReadStep, Decompress, TakeUnit, DecompressReturns, ReadEnd, Reads
  <2> QED BY <1>1, <1>3, <1>4, <1>5, <2>1
<1> QED BY <1>2, <1>6, PTL DEF FileSpec

-----------------------------------------------------------------------------
(* The first frame of a file, read in one call.                            *)

\* f[j] is how a call stands that has been given j units.
IsGoing(f, k, d, units) ==
  f = [j \in 0 .. k |-> IF j = 0 THEN d
                        ELSE IF Stopped(f[j - 1]) THEN f[j - 1] ELSE Take(f[j - 1], units[j])]

\* The recursive function in Going exists.
LEMMA GoingExists ==
  ASSUME NEW k \in Nat, NEW d, NEW units
  PROVE  \E f : IsGoing(f, k, d, units)
<1> DEFINE Good == {n \in Nat : \E f : IsGoing(f, n, d, units)}
<1> DEFINE N(t, u) == IF Stopped(t) THEN t ELSE Take(t, u)
<1>1. 0 \in Good
  <2> DEFINE f == [j \in 0 .. 0 |-> d]
  <2>1. f = [j \in 0 .. 0 |-> IF j = 0 THEN d ELSE N(f[j - 1], units[j])]
    <3> HIDE DEF N
    <3> QED BY SMT
  <2> HIDE DEF f
  <2>2. IsGoing(f, 0, d, units)
    BY <2>1 DEF IsGoing
  <2> QED BY <2>2
<1>2. ASSUME NEW n \in Good \cap Nat PROVE n + 1 \in Good
  <2>0. n \in Nat /\ n + 1 \in Nat
    BY SMT
  <2>1. PICK f : IsGoing(f, n, d, units)
    OBVIOUS
  <2>2. \A j \in 0 .. n : f[j] = IF j = 0 THEN d ELSE N(f[j - 1], units[j])
    BY <2>1 DEF IsGoing
  <2> HIDE DEF N
  <2> DEFINE g == [j \in 0 .. n + 1 |-> IF j = n + 1 THEN N(f[n], units[n + 1]) ELSE f[j]]
  <2>3. ASSUME NEW j \in 0 .. n + 1
        PROVE  g[j] = IF j = 0 THEN d ELSE N(g[j - 1], units[j])
    <3>1. CASE j = n + 1
      <4>1. j # 0 /\ j - 1 = n /\ j - 1 \in 0 .. n + 1 /\ j - 1 # n + 1
        BY <2>0, <3>1, SMT
      <4>2. g[j - 1] = f[n]
        BY <4>1, Zenon
      <4>3. g[j] = N(f[n], units[n + 1])
        BY <3>1, Zenon
      <4> HIDE DEF g
      <4> QED BY <3>1, <4>1, <4>2, <4>3, Zenon
    <3>2. CASE j # n + 1
      <4>1. j \in 0 .. n
        BY <2>0, <3>2, SMT
      <4>2. j # 0 => j - 1 \in 0 .. n + 1 /\ j - 1 # n + 1
        BY <2>0, <4>1, SMT
      <4>3. g[j] = f[j]
        BY <3>2, Zenon
      <4>4. j # 0 => g[j - 1] = f[j - 1]
        BY <4>2, Zenon
      <4> HIDE DEF g
      <4> QED BY <2>2, <4>1, <4>3, <4>4, Zenon
    <3> QED BY <3>1, <3>2
  <2>4. IsGoing(g, n + 1, d, units)
    <3>1. g = [j \in 0 .. n + 1 |-> g[j]]
      BY Zenon
    <3> HIDE DEF g
    <3>2. g = [j \in 0 .. n + 1 |-> IF j = 0 THEN d ELSE N(g[j - 1], units[j])]
      BY <2>3, <3>1, Zenon
    <3> QED BY <3>2 DEF IsGoing, N
  <2> QED BY <2>0, <2>4
<1>3. Nat \subseteq Good
  <2> HIDE DEF Good
  <2> QED BY <1>1, <1>2, SetInduction
<1> QED BY <1>3

LEMMA GoingIs ==
  ASSUME NEW k \in Nat, NEW d, NEW units
  PROVE  \E f : /\ f[k] = Going(d, units, k) /\ f[0] = d
                /\ \A j \in 1 .. k : f[j] = IF Stopped(f[j - 1]) THEN f[j - 1] ELSE Take(f[j - 1], units[j])
<1> DEFINE f == CHOOSE f : f = [j \in 0 .. k |-> IF j = 0 THEN d
                                                 ELSE IF Stopped(f[j - 1]) THEN f[j - 1]
                                                 ELSE Take(f[j - 1], units[j])]
<1>1. PICK g : IsGoing(g, k, d, units)
  BY GoingExists
<1>2. f = [j \in 0 .. k |-> IF j = 0 THEN d
                            ELSE IF Stopped(f[j - 1]) THEN f[j - 1] ELSE Take(f[j - 1], units[j])]
  BY <1>1 DEF IsGoing
<1>3. f[k] = Going(d, units, k)
  BY DEF Going
<1> HIDE DEF f
<1>4. 0 \in 0 .. k
  BY SMT
<1>5. f[0] = d
  BY <1>2, <1>4, Zenon
<1>6. ASSUME NEW j \in 1 .. k
      PROVE  f[j] = IF Stopped(f[j - 1]) THEN f[j - 1] ELSE Take(f[j - 1], units[j])
  <2>1. j \in 0 .. k /\ j # 0
    BY SMT
  <2> QED BY <1>2, <2>1, Zenon
<1> QED BY <1>3, <1>5, <1>6

\* A call with all the room starts where a reader of the file does.
LEMMA RoomyCallIs == Called(Fresh, -1) = [Fresh EXCEPT !.room = -1, !.out = << >>]
<1> DEFINE d == [Fresh EXCEPT !.room = -1, !.out = << >>]
<1> DEFINE c == Called(Fresh, -1)
<1>1. << >> \in Seq(Int) /\ -1 < 0 /\ SubSeq(<< >>, 1, 0) = << >> /\ Len(<< >>) = 0
      /\ << >> \o << >> = << >>
  BY EmptySeq, SMT
<1>2. [Fresh EXCEPT !.room = -1, !.out = << >>, !.result = "more"] = d
  <2> DEFINE e == [Fresh EXCEPT !.room = -1, !.out = << >>, !.result = "more"]
  <2>1. Fresh \in Decoders /\ Fresh.result = "more" /\ -1 \in Int
    BY <1>1, FreshIs, SMT
  <2>2. e \in Decoders /\ d \in Decoders
    BY <1>1, <2>1, Zenon DEF Decoders
  <2>3. /\ e.open = Fresh.open /\ e.announced = Fresh.announced /\ e.count = Fresh.count
        /\ e.pending = Fresh.pending /\ e.room = -1 /\ e.out = << >> /\ e.result = "more"
    BY <2>1, SMT DEF Decoders
  <2>4. /\ d.open = Fresh.open /\ d.announced = Fresh.announced /\ d.count = Fresh.count
        /\ d.pending = Fresh.pending /\ d.room = -1 /\ d.out = << >> /\ d.result = Fresh.result
    BY <2>1, SMT DEF Decoders
  <2> HIDE DEF e, d
  <2>5. /\ e = [open |-> e.open, announced |-> e.announced, count |-> e.count,
                pending |-> e.pending, room |-> e.room, out |-> e.out, result |-> e.result]
        /\ d = [open |-> d.open, announced |-> d.announced, count |-> d.count,
                pending |-> d.pending, room |-> d.room, out |-> d.out, result |-> d.result]
    BY <2>2, DecoderIs, Zenon
  <2>6. e = d
    BY <2>1, <2>3, <2>4, <2>5, Zenon
  <2> QED BY <2>6 DEF e
<1>3. c = Drained(d)
  BY <1>2 DEF Called
<1>4. d \in Decoders /\ d.pending = << >> /\ d.room = -1 /\ d.out = << >>
  BY <1>1, RoomyFreshIs
<1> HIDE DEF d
<1>5. Given(d) = 0 /\ Drained(d).pending = << >> /\ Drained(d).room = d.room /\ Drained(d) \in Decoders
  BY <1>1, <1>4, DrainedIs
<1>6. Drained(d).out = d.out \o SubSeq(d.pending, 1, Given(d))
  BY <1>4, DrainedIs
<1>7. Drained(d).out = d.out
  BY <1>1, <1>4, <1>5, <1>6
<1>8. /\ Drained(d).open = d.open /\ Drained(d).announced = d.announced
      /\ Drained(d).count = d.count /\ Drained(d).result = d.result
  BY <1>4, DrainedIs
<1> DEFINE e == Drained(d)
<1> HIDE DEF e
<1>9. /\ e = [open |-> e.open, announced |-> e.announced, count |-> e.count,
              pending |-> e.pending, room |-> e.room, out |-> e.out, result |-> e.result]
      /\ d = [open |-> d.open, announced |-> d.announced, count |-> d.count,
              pending |-> d.pending, room |-> d.room, out |-> d.out, result |-> d.result]
  BY <1>4, <1>5, DecoderIs, Zenon DEF e
<1>10. e.pending = d.pending /\ e.room = d.room /\ e.out = d.out /\ e.open = d.open
       /\ e.announced = d.announced /\ e.count = d.count /\ e.result = d.result
  BY <1>4, <1>5, <1>7, <1>8 DEF e
<1>11. e = d
  BY <1>9, <1>10, Zenon
<1> QED BY <1>3, <1>11 DEF e, d

Within(units, k) == \A i \in 1 .. k : units[i].kind \in {"header", "block", "torn"}

\* Where the first frame of a row of units ends, or cannot be read on.
StopsAt(d, units, e) ==
  /\ d = WholeTo(units, e) /\ d.result # "more"
  /\ d.result = "end" => units[e].kind \in {"end", "skippable"} /\ Within(units, e - 1)

\* The call is still in the first frame, or where that stops.
Stands(d, units, k) ==
  \/ /\ d = Ready(WholeTo(units, k)) /\ d.result = "more" /\ WholeTo(units, k).result # "error"
     /\ Within(units, k)
  \/ \E e \in 1 .. k : StopsAt(d, units, e)

\* A unit that leaves a decompressor wanting more is of its frame.
LEMMA UnitWithin ==
  ASSUME NEW d, Limitless(d), d.result = "more", NEW u \in Units
  PROVE  /\ Take(d, u).result = "more" => u.kind \in {"header", "block", "torn"}
         /\ Take(d, u).result = "end" => u.kind \in {"end", "skippable"}
<1> DEFINE e == Take(d, u)
<1>1. d \in Decoders
  BY DEF Limitless
<1>2. \/ u.kind = "torn" /\ e = d
      \/ u.kind = "header" /\ ~ d.open /\ e = BeginFrameOf(d, u)
      \/ u.kind = "skippable" /\ ~ d.open /\ e = SkipFrame(d)
      \/ u.kind = "block" /\ d.open /\ e = DecodeBlockOf(d, u)
      \/ u.kind = "end" /\ d.open /\ e = EndOfFrame(d)
      \/ e = [d EXCEPT !.result = "error"]
  BY <1>1, TakeIs
<1>3. BeginFrameOf(d, u).result = "more" /\ SkipFrame(d).result = "end"
  BY <1>1, BegunFields, SkippedFields
<1>4. EndOfFrame(d).result \in {"error", "end"}
  BY <1>1, EndedFields, Zenon
<1>5. [d EXCEPT !.result = "error"].result = "error"
  BY <1>1, RefusedFields
<1>6. u.kind = "block" /\ d.open => e.result = "more"
  BY TakeLimitless, Zenon
<1> HIDE DEF e
<1>7. (e.result = "more" => u.kind \in {"header", "block", "torn"}) /\ (e.result = "end" => u.kind \in {"end", "skippable"})
  BY <1>2, <1>3, <1>4, <1>5, <1>6
<1> QED BY <1>7 DEF e

LEMMA StandsNext ==
  ASSUME NEW units \in Seq(Units), NEW k \in Nat, k < Len(units), NEW d, Stands(d, units, k)
  PROVE  Stands(IF Stopped(d) THEN d ELSE Take(d, units[k + 1]), units, k + 1)
<1> DEFINE u == units[k + 1]
<1> DEFINE w == WholeTo(units, k)
<1> DEFINE v == Take(d, u)
<1>0. /\ k + 1 \in Nat /\ k \in 0 .. Len(units) /\ k + 1 \in 1 .. Len(units) /\ k + 1 \in 0 .. Len(units)
      /\ (k + 1) - 1 = k /\ k + 1 \in 1 .. k + 1
      /\ \A i \in 1 .. k : i \in 1 .. k + 1
      /\ \A i \in 1 .. k + 1 : i \in 1 .. k \/ i = k + 1
  <2>1. Len(units) \in Nat
    BY LenProperties
  <2> QED BY <2>1, SMT
<1>1. CASE \E e \in 1 .. k : StopsAt(d, units, e)
  <2>1. PICK e \in 1 .. k : StopsAt(d, units, e)
    BY <1>1
  <2>2. Stopped(d)
    BY <2>1 DEF StopsAt, Stopped
  <2>3. \E i \in 1 .. k + 1 : StopsAt(d, units, i)
    BY <1>0, <2>1
  <2> QED BY <2>2, <2>3 DEF Stands
<1>2. CASE d = Ready(w) /\ d.result = "more" /\ w.result # "error" /\ Within(units, k)
  <2>1. Limitless(w) /\ u \in Units
    BY <1>0, WholeToLimitless, ElementOfSeq
  <2>2. Limitless(d) /\ Onward(w, u) = Take(d, u)
    <3> HIDE DEF w, u
    <3>1. Limitless(Ready(w))
      BY <2>1, ReadyIs
    <3>2. Onward(w, u) = IF w.result = "error" THEN w ELSE Take(Ready(w), u)
      BY <2>1, ReadyIs, Zenon
    <3>3. d = Ready(w) /\ w.result # "error"
      BY <1>2
    <3> HIDE DEF v
    <3>4. Onward(w, u) = Take(Ready(w), u)
      BY <3>2, <3>3
    <3> QED BY <3>1, <3>3, <3>4
  <2>3. ~ Stopped(d)
    BY <1>2, <2>2 DEF Stopped, Limitless
  <2>4. v = WholeTo(units, k + 1)
    BY <2>2, WholeToNext
  <2>5. /\ v.result = "more" => u.kind \in {"header", "block", "torn"}
        /\ v.result = "end" => u.kind \in {"end", "skippable"}
    BY <1>2, <2>1, <2>2, UnitWithin
  <2>6. Limitless(v)
    BY <2>1, <2>2, TakeLimitless
  <2> HIDE DEF v
  <2>7. CASE v.result = "more"
    <3>1. Ready(v) = v
      BY <2>6, <2>7, ReadyIs
    <3>2. Within(units, k + 1)
      BY <1>0, <1>2, <2>5, <2>7 DEF Within
    <3>3. Stands(v, units, k + 1)
      BY <2>4, <2>7, <3>1, <3>2 DEF Stands
    <3> QED BY <2>3, <3>3 DEF v
  <2>8. CASE v.result # "more"
    <3>1. StopsAt(v, units, k + 1)
      BY <1>0, <1>2, <2>4, <2>5, <2>8, Zenon DEF StopsAt
    <3>2. Stands(v, units, k + 1)
      BY <1>0, <3>1, Zenon DEF Stands
    <3> QED BY <2>3, <3>2 DEF v
  <2> QED BY <2>7, <2>8
<1> QED BY <1>1, <1>2 DEF Stands

\* One call on all the units stops where a reader of the file ends its first frame.
LEMMA FirstFrame ==
  ASSUME NEW units \in Seq(Units), Run(Called(Fresh, -1), units).result = "end"
  PROVE  \E e \in 1 .. Len(units) : StopsAt(Run(Called(Fresh, -1), units), units, e)
<1> DEFINE n == Len(units)
<1> DEFINE c == Called(Fresh, -1)
<1>0. n \in Nat /\ 0 <= n /\ \A i \in 1 .. 0 : FALSE
  <2>1. n \in Nat
    BY LenProperties
  <2> HIDE DEF n
  <2> QED BY <2>1, SMT
<1>1. PICK f : /\ f[n] = Going(c, units, n) /\ f[0] = c
               /\ \A j \in 1 .. n : f[j] = IF Stopped(f[j - 1]) THEN f[j - 1] ELSE Take(f[j - 1], units[j])
  <2> HIDE DEF n, c
  <2> QED BY <1>0, GoingIs
<1> DEFINE Good == {j \in Nat : j <= n => Stands(f[j], units, j)}
<1>2. 0 \in Good
  <2> DEFINE w == WholeTo(units, 0)
  <2>1. w.result = "end" /\ w.out = << >>
    BY WholeToStart, RoomyStartIs
  <2>2. Ready(w) = c
    BY <2>1, RoomyCallIs, Zenon DEF Ready
  <2>3. << >> \in Seq(Int)
    BY EmptySeq
  <2>4. c.result = "more"
    BY <2>3, RoomyCallIs, RoomyFreshIs, ZenonT(60)
  <2> HIDE DEF w, c, n
  <2>5. Stands(f[0], units, 0)
    BY <1>0, <1>1, <2>1, <2>2, <2>4 DEF Stands, Within, w
  <2>6. 0 \in Nat
    BY SMT
  <2> QED BY <2>5, <2>6
<1>3. ASSUME NEW j \in Good \cap Nat PROVE j + 1 \in Good
  <2> HIDE DEF n, c
  <2>1. SUFFICES ASSUME j + 1 <= n PROVE Stands(f[j + 1], units, j + 1)
    BY SMT
  <2>2. j \in Nat /\ j <= n /\ j < n /\ j + 1 \in 1 .. n /\ (j + 1) - 1 = j
    BY <1>0, <2>1, SMT
  <2>3. Stands(f[j], units, j)
    BY <2>2
  <2>4. f[j + 1] = IF Stopped(f[j]) THEN f[j] ELSE Take(f[j], units[j + 1])
    BY <1>1, <2>2
  <2> QED BY <2>2, <2>3, <2>4, StandsNext DEF n
<1>4. Nat \subseteq Good
  <2> HIDE DEF Good
  <2> QED BY <1>2, <1>3, SetInduction
<1>5. Stands(f[n], units, n)
  <2> HIDE DEF n, c
  <2>1. n <= n
    BY <1>0, SMT
  <2> QED BY <1>0, <1>4, <2>1
<1>6. f[n] = Run(c, units)
  BY <1>1 DEF Run
<1>7. f[n].result # "more"
  BY <1>6
<1> HIDE DEF n, c
<1>8. \E e \in 1 .. n : StopsAt(f[n], units, e)
  BY <1>5, <1>7 DEF Stands
<1> QED BY <1>6, <1>8 DEF n, c

\* What lz4.frame.decompress does.
LEMMA FirstFrameRead ==
  ASSUME FileTypes, DecompressOneShot, shot'.status = "decompressed"
  PROVE  OneShotComplete'
<1> DEFINE d == Run(Called(Fresh, -1), disk)
<1>1. disk \in Seq(Units) /\ Len(disk) \in Nat /\ \A i \in 1 .. Len(disk) : disk[i].kind = "torn" => i = Len(disk)
  BY LenProperties DEF FileTypes
<1>2. /\ shot' = [NoShot EXCEPT !.status = IF d.result = "end" THEN "decompressed" ELSE "raised",
                                !.data = IF d.result = "end" THEN d.out ELSE << >>]
      /\ disk' = disk
  BY DEF DecompressOneShot, FrameDecoded, writerVars
<1> HIDE DEF d
<1>3. d.result = "end" /\ shot'.data = d.out
  BY <1>2 DEF NoShot
<1>4. PICK e \in 1 .. Len(disk) : StopsAt(d, disk, e)
  BY <1>1, <1>3, FirstFrame DEF d
<1>5. /\ d = WholeTo(disk, e) /\ disk[e].kind \in {"end", "skippable"}
      /\ \A i \in 1 .. e - 1 : disk[i].kind \in {"header", "block", "torn"}
  BY <1>3, <1>4 DEF StopsAt, Within
<1>6. e \in Nat /\ e <= Len(disk) /\ \A i \in 1 .. e - 1 : i \in 1 .. Len(disk) /\ i # Len(disk)
  BY <1>1, SMT
<1>7. \A i \in 1 .. e - 1 : disk[i].kind \in {"header", "block"}
  BY <1>1, <1>5, <1>6
<1> DEFINE front == SubSeq(disk, 1, e)
<1>8. Len(front) = e /\ \A i \in 1 .. e : front[i] = disk[i]
  BY <1>1, <1>6, SMT
<1> HIDE DEF front
<1>9. Whole(front) = WholeTo(disk, e)
  <2>1. WholeTo(front, e) = WholeTo(disk, e)
    BY <1>6, <1>8, WholeToSame
  <2> QED BY <1>8, <2>1 DEF Whole
<1>10. e \in DOMAIN disk
  BY <1>1, SMT
<1>11. shot'.data = Whole(front).out
  BY <1>3, <1>5, <1>9
<1> QED BY <1>2, <1>5, <1>7, <1>10, <1>11 DEF OneShotComplete, front

\* lz4.frame.decompress returns all the blocks of a file's first frame, or
\* raises (decompress, lz4/frame/_frame.c).
THEOREM OneShotReadsAFrame == FileSpec => []OneShotComplete
<1>1. FileInit => OneShotComplete
  BY NoShotIs DEF FileInit, OneShotComplete
<1>2. FInv /\ OneShotComplete /\ [FileNext]_fileVars => OneShotComplete'
  <2> SUFFICES ASSUME FInv, OneShotComplete, [FileNext]_fileVars PROVE OneShotComplete'
    OBVIOUS
  <2>1. FileTypes /\ Calling
    BY DEF FInv
  <2>2. CASE shot'.status # "decompressed"
    BY <2>2 DEF OneShotComplete
  <2>3. CASE DecompressOneShot
    BY <2>1, <2>2, <2>3, FirstFrameRead
  <2>4. CASE UNCHANGED <<shot, disk>>
    BY <2>4 DEF OneShotComplete
  <2>5. CASE shot' = shot /\ mode = "write"
    <3>1. shot = NoShot
      BY <2>1, <2>5 DEF Calling
    <3>2. shot'.status # "decompressed"
      BY <2>5, <3>1, NoShotIs
    <3> QED BY <2>2, <3>2
  <2>6. \A p, n : CompressOneShot(n, p) => shot'.status # "decompressed"
    BY DEF CompressOneShot
  <2>7. shot' = NoShot => shot'.status # "decompressed"
    BY NoShotIs
  <2>8. \/ shot' = NoShot
        \/ \E p \in Choices, n \in 0 .. MaxContent : CompressOneShot(n, p)
        \/ DecompressOneShot
        \/ UNCHANGED <<shot, disk>>
        \/ shot' = shot /\ mode = "write"
    <3>1. BeginFrame => shot' = shot /\ step = "begin"
      BY Zenon DEF BeginFrame
    <3>2. CompressData => shot' = shot /\ step = "compress"
      BY Zenon DEF CompressData
    <3>3. flushFile \/ close => shot' = shot /\ mode = "write"
      BY Zenon DEF flushFile, close, FinalFlush, FlushFrame
    <3>4. step # "idle" => mode = "write"
      BY <2>1 DEF Calling
    <3>5. "begin" # "idle" /\ "compress" # "idle"
      OBVIOUS
    <3>6. BeginFrame \/ CompressData \/ flushFile \/ close => shot' = shot /\ mode = "write"
      BY <3>1, <3>2, <3>3, <3>4, <3>5, Zenon
    <3> QED BY <3>6, Zenon DEF FileNext, fileVars, writerVars, open, write, Closed, AppendSkippable, CutShort,
              OpenForReading, CloseReader, read, seek, SkipData,
              ReadStep, Decompress, TakeUnit, DecompressReturns, ReadEnd, Reads
  <2> QED BY <2>2, <2>3, <2>4, <2>5, <2>6, <2>7, <2>8
<1> QED BY <1>1, <1>2, FileInvariant, PTL DEF FileSpec

=============================================================================
