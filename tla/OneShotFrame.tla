---------------------------- MODULE OneShotFrame ----------------------------
(***************************************************************************)
(* compress of lz4/frame/_frame.c: a whole frame in one call, that is      *)
(* LZ4F_compressFrame of lz4libs/lz4frame.c.  It runs the three calls of   *)
(* LZ4FCompression on a context on the stack, which has no tmp buffer at   *)
(* all: what it writes and where its history lies must never need one.     *)
(***************************************************************************)
EXTENDS FrameBinding

\* LZ4F_optimalBSID: the first block size n bytes fit into, if it is smaller.
OptimalBlock(requested, n) ==
  LET enough == {b \in BlockSizes : b < requested /\ n <= b}
  IN  IF enough = {} THEN requested ELSE CHOOSE b \in enough : \A a \in enough : b <= a

\* Mutant: autoFlush is left as the caller has it, which is off.
OneShotBuffered(n, p) ==
  LET block == OptimalBlock(p.block, n)
  IN  [p EXCEPT !.size = IF @ = 0 THEN 0 ELSE n, !.block = block, !.linked = @ /\ n > block]

\* The preferences of LZ4F_compressFrame_usingCDict; a size other than 0 stands
\* for store_size.
OneShotPrefs(n, p) ==
  LET block == OptimalBlock(p.block, n)
  IN  [p EXCEPT !.size = IF @ = 0 THEN 0 ELSE n, !.block = block,
                !.autoFlush = TRUE, !.linked = @ /\ n > block]

\* The context: maxBufferSize is 5 MB, more than any frame asks for with
\* autoFlush, and tmpBuff is NULL.
OneShotContext == [NewContext EXCEPT !.max = Window]

\* LZ4F_compressUpdate with stableSrc: history stays in the caller's buffer.
UpdateStable(c, from, n) ==
  LET c1 == AfterTmpBlock(c, from, n)
      c2 == IF Direct(c, n) > 0 /\ c.prefs.linked
            THEN [c1 EXCEPT !.dict = Span("src", from + Filled(c, n), Direct(c, n)), !.tmpIn = 0]
            ELSE c1
      c3 == IF c.prefs.autoFlush THEN c2 ELSE KeepWithinLimits(c2)
  IN  [c3 EXCEPT !.tmpInSize = @ + Left(c, n), !.total = @ + n]

OneShotBegun(n, p) == Begin(OneShotContext, OneShotPrefs(n, p))
OneShotUpdated(n, p) == UpdateStable(OneShotBegun(n, p), 0, n)

\* The frame it returns, or the first of its checks of the room left that fails.
OneShotReturned(n, p) ==
  LET q      == OneShotPrefs(n, p)
      cap    == compressFrameBound(n, p)
      blocks == UpdateBlocks(OneShotBegun(n, p), 0, n)
      body   == HeaderSize(q) + Written(q, blocks)
  IN  IF \/ cap < compressFrameBound(n, q)
         \/ cap < maxFHSize
         \/ cap - HeaderSize(q) < compressBound_internal(n, q, 0)
         \/ cap - body < FooterSize(q)
      THEN Raised("tooSmall")
      ELSE IF WrongSize(OneShotUpdated(n, p))
      THEN Raised("frameSize")
      ELSE Returned({"header", "blocks", "footer"}, cap, blocks, body + FooterSize(q))
=============================================================================
