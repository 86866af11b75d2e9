---------------------------- MODULE LZ4Streaming ----------------------------
(***************************************************************************)
(* The history that LZ4's streaming calls keep between blocks.             *)
(*                                                                         *)
(* Neither encoder nor decoder copies what it has seen: a history is one   *)
(* or two segments of the caller's memory, addresses and lengths only.     *)
(* The prefix ends where the next block lies; older bytes may lie in an    *)
(* external segment.  A match names its source by distance, so the byte k  *)
(* before a block is wherever the history says that byte lies, whatever    *)
(* that memory holds by now.                                               *)
(***************************************************************************)
EXTENDS Integers

CONSTANTS
  KB64,      \* the window: no match reaches further back
  MinDict,   \* fewer bytes of history than this are dropped
  HashUnit   \* LZ4_loadDict ignores a shorter dictionary

ASSUME StreamingAssumption ==
  /\ KB64 \in Nat \ {0}
  /\ MinDict \in Nat /\ MinDict =< KB64
  /\ HashUnit \in Nat

Lesser(a, b) == IF a =< b THEN a ELSE b

\* Below every address of a page or of a dictionary.
NULL == -1

Seg(at, size) == [at |-> at, size |-> size]
None(at)      == Seg(at, 0)
End(s)        == s.at + s.size

\* The last k bytes before an address.
LastBytes(end, k) == Seg(end - k, k)

History(prefix, ext) == [prefix |-> prefix, ext |-> ext]

\* LZ4_DISTANCE_MAX is one less than 64 KB.
Reach(h) == Lesser(h.prefix.size + h.ext.size, KB64 - 1)

\* Where the byte k before the end of the prefix lies.
Back(h, k) ==
  IF k =< h.prefix.size THEN End(h.prefix) - k ELSE End(h.ext) - (k - h.prefix.size)

-----------------------------------------------------------------------------
(* LZ4_stream_t keeps one segment, the dictionary.                           *)

FastNew == None(NULL)

FastLoad(at, size) ==
  IF size < HashUnit THEN FastNew ELSE LastBytes(at + size, Lesser(size, KB64))

\* What is left of a dictionary when a block of n bytes is written at src:
\* one too short to be of use is forgotten, and one whose beginning the block
\* now covers is cut.
FastInvalidated(d, src, n) ==
  IF d.size < MinDict /\ (d.size = 0 \/ End(d) # src) /\ n > 0 THEN None(src) ELSE d

\* Mutant: the dictionary is used as it was, though the block lies over it.
XFastUnclipped(d, src, n) == d

FastClipped(d, src, n) ==
  LET left == Lesser(End(d) - (src + n), KB64)
  IN  IF d.size > 0 /\ src + n > d.at /\ src + n < End(d)
      THEN LastBytes(End(d), IF left < MinDict THEN 0 ELSE left)
      ELSE d

FastHistory(d, src, n) ==
  LET e == FastClipped(FastInvalidated(d, src, n), src, n)
  IN  IF End(e) = src THEN History(e, None(src)) ELSE History(None(src), e)

FastContinue(d, src, n) ==
  LET p == FastHistory(d, src, n).prefix IN Seg(p.at, p.size + n)

-----------------------------------------------------------------------------
(* LZ4_streamHC_t keeps two: the prefix, and the segment before it.          *)

HCNew == History(None(NULL), None(NULL))

HCLoad(at, size) ==
  History(LastBytes(at + size, Lesser(size, KB64)), None(at))

HCSwitched(h, src) ==
  IF h.prefix.at = NULL THEN History(None(src), None(src))
  ELSE IF End(h.prefix) # src THEN History(None(src), h.prefix)
  ELSE h

\* Mutant: only the start of the segment is compared with the block.
XHCClipped(h, src, n) ==
  LET left == End(h.ext) - Lesser(src + n, End(h.ext))
  IN  IF src > h.ext.at /\ src < End(h.ext)
      THEN [h EXCEPT !.ext = IF left < MinDict THEN None(h.prefix.at) ELSE LastBytes(End(@), left)]
      ELSE h

HCClipped(h, src, n) ==
  LET left == End(h.ext) - Lesser(src + n, End(h.ext))
  IN  IF src + n > h.ext.at /\ src < End(h.ext)
      THEN [h EXCEPT !.ext = IF left < MinDict THEN None(h.prefix.at) ELSE LastBytes(End(@), left)]
      ELSE h

HCHistory(h, src, n) == HCClipped(HCSwitched(h, src), src, n)

HCContinue(h, src, n) ==
  LET g == HCHistory(h, src, n) IN [g EXCEPT !.prefix.size = @ + n]

-----------------------------------------------------------------------------
(* LZ4_streamDecode_t keeps the same two, and trusts them blindly.           *)

DecodeSet(at, size) == History(Seg(at, size), None(NULL))

\* Mutant: the segment left behind is forgotten when the buffer changes.
XDecodeHistory(h, dest) ==
  IF h.prefix.size # 0 /\ End(h.prefix) = dest THEN h
  ELSE History(None(dest), None(NULL))

DecodeHistory(h, dest) ==
  IF h.prefix.size = 0 THEN History(None(dest), None(NULL))
  ELSE IF End(h.prefix) = dest THEN h
  ELSE History(None(dest), h.prefix)

\* A block of no bytes returns 0, which the caller takes for an early return.
DecodeContinue(h, dest, n) ==
  LET g == DecodeHistory(h, dest)
  IN  IF n > 0 THEN [g EXCEPT !.prefix.size = @ + n]
      ELSE IF h.prefix.size = 0 THEN h
      ELSE [h EXCEPT !.ext = g.ext]
=============================================================================
