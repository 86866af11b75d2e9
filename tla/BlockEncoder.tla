---------------------------- MODULE BlockEncoder ----------------------------
(***************************************************************************)
(* The block format and its compressors, lz4libs/lz4.c and lz4hc.c, with   *)
(* the constants and the lengths of the code.                              *)
(*                                                                         *)
(* A block is a row of sequences: a token, the literals' length, the       *)
(* literals, an offset, the match's length; the last has literals only.    *)
(* What the compressors differ in is which matches they find; here they    *)
(* find any that the format allows.  So the content follows from the       *)
(* matches: the byte at position p has the value p, and is like no other,  *)
(* unless a match copies it; the dictionary lies before position 0.        *)
(***************************************************************************)
EXTENDS Integers, Sequences

MINMATCH == 4
LASTLITERALS == 5
MFLIMIT == 12
LZ4_minLength == MFLIMIT + 1
RUN_MASK == 15
ML_MASK == 15
LZ4_DISTANCE_MAX == 65535

Greater(a, b) == IF a > b THEN a ELSE b

\* The bytes that follow a token for a length it has no room for.
LengthBytes(length, mask) == IF length < mask THEN 0 ELSE (length - mask) \div 255 + 1

\* Mutant: no room for the last sequence beyond its literals.
XLZ4_compressBound(n) == n + n \div 255

LZ4_compressBound(n) == n + n \div 255 + 16

\* The size of a sequence: lit literals, then a match, none if length is 0.
SequenceSize(s) ==
  1 + LengthBytes(s.lit, RUN_MASK) + s.lit
    + (IF s.length = 0 THEN 0 ELSE 2 + LengthBytes(s.length - MINMATCH, ML_MASK))
-----------------------------------------------------------------------------
(* A compressor at work: n bytes, a dictionary of so many, whether it is   *)
(* lz4hc.c's, the room it has; ip is anchor, op where it writes, high and  *)
(* read how far it has written and read, copies of whole words included.   *)

Encoder(n, dict, hc, room) ==
  [n |-> n, dict |-> dict, hc |-> hc, room |-> room, ip |-> 0, op |-> 0, high |-> 0, read |-> 0,
   seqs |-> << >>, data |-> << >>, status |-> "encoding"]

\* LZ4_wildCopy8 copies eight bytes at least.
Copied8(n) == IF n = 0 THEN 8 ELSE 8 * ((n + 7) \div 8)

\* What a match of the format is: it starts MFLIMIT and ends LASTLITERALS before
\* the end, and what it repeats lies in the window.
MatchAllowed(e, s) ==
  /\ e.n >= LZ4_minLength
  /\ e.ip + s.lit <= e.n - MFLIMIT
  /\ s.length >= MINMATCH /\ e.ip + s.lit + s.length <= e.n - LASTLITERALS
  /\ s.offset \in 1 .. e.ip + s.lit + e.dict /\ s.offset <= LZ4_DISTANCE_MAX

\* Where the sequence's literals are copied to, and where its match is written.
LiteralsAt(e, s) == e.op + 1 + LengthBytes(s.lit, RUN_MASK)
MatchAt(e, s) == LiteralsAt(e, s) + s.lit + 2

\* lz4hc.c does not look at the room when it is the bound.
Limited(e) == ~ e.hc \/ e.room < LZ4_compressBound(e.n)

\* "Check output buffer overflow", before the literals and before the match's
\* length.
LiteralsFit(e, s) == Limited(e) => e.op + 1 + s.lit + (2 + 1 + LASTLITERALS) + s.lit \div 255 <= e.room

MatchFits(e, s) ==
  LET code == s.length - MINMATCH
  IN  Limited(e) =>
      IF e.hc
      THEN MatchAt(e, s) + code \div 255 + (1 + LASTLITERALS) <= e.room
      ELSE MatchAt(e, s) + (1 + LASTLITERALS) + (code + 240) \div 255 <= e.room

\* The match's length is written four bytes at a time by lz4.c.
LengthWritten(e, s) ==
  LET code == s.length - MINMATCH
  IN  IF code < ML_MASK THEN 0
      ELSE IF e.hc THEN LengthBytes(code, ML_MASK)
      ELSE 4 * ((code - ML_MASK) \div 1020 + 1)

\* A match repeats what lies offset bytes before it, itself included.
ByteAt(data, p) == IF p < 0 THEN p ELSE data[p + 1]

WithSequence(e, s) ==
  LET literals == e.data \o [i \in 1 .. s.lit |-> e.ip + i - 1]
      start    == e.ip + s.lit - s.offset
  IN  literals \o [i \in 1 .. s.length |-> ByteAt(literals, start + ((i - 1) % s.offset))]

\* A sequence knows where its token lies in the block, and where its literals
\* came from.
Placed(e, s) == [token |-> e.op, at |-> e.ip, lit |-> s.lit, offset |-> s.offset, length |-> s.length]

\* A sequence is written.  Right after a match lz4.c goes on to the next without
\* a look at the room for its token and offset: direct.
EncodeSequence(e, s, direct) ==
  IF ~ direct /\ ~ LiteralsFit(e, s)
  THEN [e EXCEPT !.status = "failed"]
  ELSE LET c == [e EXCEPT !.read = IF direct THEN @ ELSE Greater(@, e.ip + Copied8(s.lit)),
                          !.high = IF direct THEN Greater(@, e.op + 3)
                                   ELSE Greater(@, Greater(MatchAt(e, s), LiteralsAt(e, s) + Copied8(s.lit)))]
       IN  IF ~ MatchFits(e, s)
           THEN [c EXCEPT !.status = "failed"]
           ELSE [c EXCEPT !.high = Greater(@, MatchAt(e, s) + LengthWritten(e, s)),
                          !.op = @ + SequenceSize(s), !.ip = @ + s.lit + s.length,
                          !.seqs = Append(@, Placed(e, s)), !.data = WithSequence(e, s)]

\* _last_literals
EncodeLast(e) ==
  LET last == [lit |-> e.n - e.ip, offset |-> 0, length |-> 0]
  IN  IF Limited(e) /\ e.op + last.lit + 1 + (last.lit + 240) \div 255 > e.room
      THEN [e EXCEPT !.status = "failed"]
      ELSE [e EXCEPT !.status = "encoded", !.op = @ + SequenceSize(last),
                     !.high = Greater(@, e.op + SequenceSize(last)), !.read = e.n, !.ip = e.n,
                     !.seqs = Append(@, Placed(e, last)), !.data = @ \o [i \in 1 .. last.lit |-> e.ip + i - 1]]
=============================================================================
