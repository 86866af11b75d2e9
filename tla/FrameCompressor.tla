-------------------------- MODULE FrameCompressor --------------------------
(***************************************************************************)
(* The class LZ4FrameCompressor of lz4/frame/__init__.py over the binding  *)
(* of _frame.c.  Callers may call any method at any time, after an         *)
(* exception too; `clean` says that no call has failed part-way since the  *)
(* frame was begun, and is only used to say what is promised.              *)
(***************************************************************************)
EXTENDS FrameBinding

CONSTANTS ContentSizes,   \* the source_size values callers pass, 0 for none
          Choices,        \* constructor arguments and source_size of a frame
          MaxContent      \* bound: bytes of content compressed into a frame

ASSUME ClassAssumption ==
  /\ ContentSizes \subseteq Nat /\ 0 \in ContentSizes
  /\ Choices \subseteq Preferences(ContentSizes)
  /\ MaxContent \in Nat

VARIABLES
  has,        \* self._context is not None
  cctx,       \* the context it holds
  started,    \* self._started
  accepted,   \* bytes of the frame's content given to compress
  sent,       \* bytes of it in the blocks compress and flush returned
  clean,      \* no call has failed since the frame was begun
  ret         \* what the last call returned or raised

vars == <<has, cctx, started, accepted, sent, clean, ret>>

Init ==
  /\ has = FALSE
  /\ cctx = NewContext
  /\ started = FALSE
  /\ accepted = 0
  /\ sent = 0
  /\ clean = TRUE
  /\ ret = Raised("ok")

\* Python raises before anything is done.
Refuse == ret' = Raised("refused") /\ UNCHANGED <<has, cctx, started, accepted, sent, clean>>
-----------------------------------------------------------------------------
(* begin: a new context each time, kept even if compress_begin raises.     *)

BeginDone(p) ==
  /\ cctx' = Begin(NewContext, p)
  /\ started' = TRUE
  /\ accepted' = 0 /\ sent' = 0 /\ clean' = TRUE
  /\ ret' = HeaderReturned(p)

BeginRaises(p) ==
  /\ \E f \in BeginFailures(NewContext, p) : cctx' = f.c /\ ret' = f.ret
  /\ clean' = FALSE
  /\ UNCHANGED <<started, accepted, sent>>

\* create_compression_context raises, and what _context holds stays.
CreateRaises ==
  /\ ret' \in {Raised("MemoryError"), Raised("allocation")}
  /\ UNCHANGED <<has, cctx, started, accepted, sent, clean>>

begin(p) ==
  \/ ~ started /\ has' = TRUE /\ (BeginDone(p) \/ BeginRaises(p))
  \/ ~ started /\ CreateRaises
  \/ started /\ Refuse
-----------------------------------------------------------------------------
(* compress                                                                *)

CompressDone(n) ==
  /\ ~ ChunkRefused(cctx, n)
  /\ cctx' = Update(cctx, accepted, n)
  /\ accepted' = accepted + n
  /\ \/ /\ sent' = sent + UpdateBytes(cctx, n)
        /\ ret' = ChunkReturned(cctx, accepted, n)
        /\ UNCHANGED clean
     \/ ret' = Raised("MemoryError") /\ clean' = FALSE /\ UNCHANGED sent

CompressRaises(n) ==
  /\ ret' \in {Raised("MemoryError")} \cup (IF ChunkRefused(cctx, n) THEN {ChunkRaised(cctx)} ELSE {})
  /\ clean' = FALSE
  /\ UNCHANGED <<cctx, accepted, sent>>

compress(n) ==
  \/ /\ has /\ started
     /\ accepted + n <= MaxContent
     /\ CompressDone(n) \/ CompressRaises(n)
     /\ UNCHANGED <<has, started>>
  \/ ~ (has /\ started) /\ Refuse
-----------------------------------------------------------------------------
(* flush always ends the frame, and only then lets the context go.         *)

\* Mutant: the frame stays open.
FlushReturnsOpen ==
  /\ ~ FlushRefused(cctx, TRUE) /\ ~ WrongSize(cctx)
  /\ cctx' = End(cctx)
  /\ has' = FALSE
  /\ sent' = sent + cctx.tmpInSize
  /\ ret' = FlushReturned(cctx, TRUE)
  /\ UNCHANGED <<started, accepted, clean>>

FlushReturns ==
  /\ ~ FlushRefused(cctx, TRUE) /\ ~ WrongSize(cctx)
  /\ cctx' = End(cctx)
  /\ has' = FALSE /\ started' = FALSE
  /\ sent' = sent + cctx.tmpInSize
  /\ ret' = FlushReturned(cctx, TRUE)
  /\ UNCHANGED <<accepted, clean>>

\* Where compress_flush failed: no room allocated, refused by LZ4F, or the
\* frame is ended and its last bytes are lost.
FlushRaises ==
  /\ \/ ret' = Raised("MemoryError") /\ UNCHANGED cctx
     \/ /\ FlushRefused(cctx, TRUE)
        /\ ret' = FlushRaised(cctx) /\ cctx' = AfterRefusedFlush(cctx)
     \/ /\ ~ FlushRefused(cctx, TRUE)
        /\ ret' = Raised(IF WrongSize(cctx) THEN "frameSize" ELSE "MemoryError")
        /\ cctx' = End(cctx)
  /\ clean' = FALSE
  /\ UNCHANGED <<has, started, accepted, sent>>

flush ==
  \/ has /\ (FlushReturns \/ FlushRaises)
  \/ ~ has /\ Refuse
-----------------------------------------------------------------------------
\* reset, and leaving the with block (the arguments it clears are not used again).
reset ==
  /\ has' = FALSE /\ started' = FALSE
  /\ accepted' = 0 /\ sent' = 0 /\ clean' = TRUE
  /\ ret' = Raised("ok")
  /\ UNCHANGED cctx

Next ==
  \/ \E p \in Choices : begin(p)
  \/ \E n \in 0..MaxContent : compress(n)
  \/ flush
  \/ reset

Spec == Init /\ [][Next]_vars
-----------------------------------------------------------------------------
(* Properties                                                              *)

\* The attributes are what __init__ makes them, the context a C struct.
TypeOK ==
  /\ IsContext(cctx, ContentSizes)
  /\ {has, started, clean} \subseteq BOOLEAN
  /\ {accepted, sent} \subseteq Nat
  /\ ret.status \in Statuses

\* As long as nothing failed, the two Python flags and the C stage agree on
\* whether a frame is open (__init__.py:211-224, 278-285; lz4frame.c:783, 1178).
FlagsAgree == clean => (started <=> has) /\ (started => cctx.cStage = 1)

\* A context the class will still compress into is sound whatever has failed
\* before: room in its buffer, and the content waiting in it and the linked
\* history behind it are the bytes that were given.
ContextSound ==
  has /\ cctx.cStage = 1 /\ started =>
    Roomy(cctx) /\ WaitingIs(cctx, accepted) /\ HistoryIs(cctx, accepted)

\* No call is refused for lack of output room, whatever failed before it.
NeverTooSmall == ret.status # "tooSmall" /\ ret.written <= ret.cap

\* An announced content size is kept by every frame that closes cleanly.
PromiseKept ==
  clean /\ "footer" \in ret.parts /\ cctx.prefs.size > 0 => accepted = cctx.prefs.size

\* The compressor is a FrameWriter: blocks carry the content in order, at most
\* a block is held back, and a flush that returns closes a complete frame.
Writer == INSTANCE FrameWriter WITH
  Lag   <- CHOOSE B \in BlockSizes : \A b \in BlockSizes : b <= B,
  phase <- IF ~ clean THEN "spoiled" ELSE IF started THEN "open" ELSE "idle",
  given <- IF clean THEN accepted ELSE 0,
  out   <- IF clean THEN sent ELSE 0

WriterSpec == Writer!WriterSpec
=============================================================================
