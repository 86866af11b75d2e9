---------------------------- MODULE BlockDecoder ----------------------------
(***************************************************************************)
(* LZ4_decompress_generic of lz4libs/lz4.c, as LZ4_decompress_safe and     *)
(* LZ4_decompress_safe_forceExtDict instantiate it: a sequence at a time,  *)
(* with the distances of the code, and a note of how far it has read and   *)
(* written.  The destination begins at 0, the dictionary ends there.       *)
(***************************************************************************)
EXTENDS BlockEncoder, BlockCopies

WILDCOPYLENGTH == 8
FASTLOOP_SAFE_DISTANCE == 64
MATCH_SAFEGUARD_DISTANCE == 12

Least(a, b) == IF a < b THEN a ELSE b

\* No room is enough for a single token 0 (lz4.c:1981).
IsToken0(s) == s.lit = 0 /\ s.length \in {0, MINMATCH}

\* fast: built with LZ4_FAST_DEC_LOOP; iend: the bytes there are of the block.
Decoder(block, iend, cap, fast) ==
  [seqs |-> block.seqs, dict |-> block.dict, iend |-> iend, cap |-> cap, k |-> 1, ip |-> 0, op |-> 0,
   mem |-> [p \in 0 .. cap - 1 |-> Junk], fast |-> fast /\ cap >= FASTLOOP_SAFE_DISTANCE,
   rhigh |-> 0, rlow |-> 0, whigh |-> 0,
   status |-> IF cap = 0
              THEN IF iend = 1 /\ IsToken0(block.seqs[1]) THEN "done" ELSE "error"
              ELSE IF iend = 0 THEN "error" ELSE "decoding"]

Now(d)   == d.seqs[d.k]
Match(d) == d.op - Now(d).offset
Code(d)  == Greater(0, Now(d).length - MINMATCH)

OutputError(d) == [d EXCEPT !.status = "error"]
SafeLoop(d) == [d EXCEPT !.fast = FALSE]

ReadTo(d, n)  == [d EXCEPT !.ip = @ + n, !.rhigh = Greater(@, d.ip + n)]
Token(d)  == ReadTo(d, 1)
Offset(d) == ReadTo(d, 2)

\* read_variable_length: it reads on until a byte ends the length or lies behind
\* the limit.
read_variable_length(d, length, limit, initialCheck) ==
  LET bytes == LengthBytes(length, RUN_MASK)
  IN  IF initialCheck /\ d.ip >= limit THEN OutputError(d)
      ELSE IF d.ip + bytes > limit
      THEN OutputError([d EXCEPT !.rhigh = Greater(@, Least(d.ip + bytes, Greater(limit, d.ip) + 1))])
      ELSE ReadTo(d, bytes)

\* Literals, copied in so many bytes: behind them come the bytes of the block.
Literals(d, bytes) ==
  LET s == Now(d)
  IN  [d EXCEPT !.mem = [p \in DOMAIN d.mem |->
                           IF p >= d.op /\ p < d.op + s.lit THEN s.at + p - d.op
                           ELSE IF p >= d.op /\ p < d.op + bytes THEN Junk ELSE d.mem[p]],
                !.rhigh = Greater(@, d.ip + bytes), !.whigh = Greater(@, d.op + bytes),
                !.ip = @ + s.lit, !.op = @ + s.lit]

\* The match is copied, and the next sequence begins.
Matched(d, mem, written) ==
  [d EXCEPT !.mem = mem, !.whigh = Greater(@, written), !.rlow = Least(@, Match(d)),
            !.op = @ + Now(d).length, !.k = @ + 1]

\* Both loops' way with 4 to 18 bytes that do not overlap.
Match18(d) ==
  LET first  == Word(d.mem, d.op, Match(d), 8)
      second == Word(first, d.op + 8, Match(d) + 8, 8)
  IN  Matched(d, Word(second, d.op + 16, Match(d) + 16, 2), d.op + 18)

IsShort(d) == Code(d) < ML_MASK /\ Now(d).offset >= 8 /\ Match(d) >= 0

\* checkOffset: dictionaries of less than 64 KB.
OffsetOutside(d) == Match(d) + d.dict < 0
InDictionary(d)  == d.dict > 0 /\ Match(d) < 0

\* A match that starts in the dictionary, and may run on from the destination's
\* beginning.
DictionaryMatch(d) ==
  LET length == Now(d).length
      copy   == Least(length, - Match(d))
      mem    == [p \in DOMAIN d.mem |-> IF p >= d.op /\ p < d.op + copy THEN Match(d) + p - d.op ELSE d.mem[p]]
  IN  IF d.op + length > d.cap - LASTLITERALS THEN OutputError(d)
      ELSE Matched(d, Bytewise(mem, d.op + copy, 0, length - copy), d.op + length)
-----------------------------------------------------------------------------
\* A match that ends close to the end of the destination: words as far as they
\* fit, then bytes.
MatchNearEnd(d, mem, from) ==
  LET to    == d.op + 8
      end   == d.op + Now(d).length
      limit == d.cap - (WILDCOPYLENGTH - 1)
      words == to < limit
      start == Greater(to, limit)
  IN  IF end > d.cap - LASTLITERALS
      THEN OutputError([d EXCEPT !.whigh = Greater(@, to)])
      ELSE Matched(d, Bytewise(IF words THEN LZ4_wildCopy8(mem, to, from, limit) ELSE mem,
                               start, from + start - to, end - start),
                   Greater(end, IF words THEN Reached(to, limit, 8) ELSE to))

\* safe_match_copy
SafeMatch(d) ==
  LET offset == Now(d).offset
      end    == d.op + Now(d).length
      first  == IF offset < 8 THEN ShortWord(d.mem, d.op, offset) ELSE Word(d.mem, d.op, Match(d), 8)
      from   == IF offset < 8 THEN AfterShortWord(d.op, offset) ELSE Match(d) + 8
      second == Word(first, d.op + 8, from, 8)
  IN  IF OffsetOutside(d) THEN OutputError(d)
      ELSE IF InDictionary(d) THEN DictionaryMatch(d)
      ELSE IF end > d.cap - MATCH_SAFEGUARD_DISTANCE THEN MatchNearEnd(d, first, from)
      ELSE IF Now(d).length > 16
      THEN Matched(d, LZ4_wildCopy8(second, d.op + 16, from + 8, end), Reached(d.op + 16, end, 8))
      ELSE Matched(d, second, d.op + 16)

\* _copy_match
CopyMatch(d) ==
  LET v == IF Code(d) < ML_MASK THEN d
           ELSE read_variable_length(d, Code(d), d.iend - LASTLITERALS + 1, FALSE)
  IN  IF v.status = "error" THEN v ELSE SafeMatch(v)

\* Mutant: the last literals need not end where the block does.
XEndsBlock(d) == d.ip + Now(d).lit <= d.iend /\ d.op + Now(d).lit <= d.cap

\* Literals so close to an end are the last, or the block is not sound.
EndsBlock(d) == d.ip + Now(d).lit = d.iend /\ d.op + Now(d).lit <= d.cap

\* Mutant: room for the literals, not for the words they are copied in.
XNearAnEnd(d) == d.op + Now(d).lit > d.cap \/ d.ip + Now(d).lit > d.iend - (2 + 1 + LASTLITERALS)

NearAnEnd(d) == \/ d.op + Now(d).lit > d.cap - MFLIMIT
                \/ d.ip + Now(d).lit > d.iend - (2 + 1 + LASTLITERALS)

\* safe_literal_copy
SafeLiterals(d) ==
  IF ~ NearAnEnd(d) THEN CopyMatch(Offset(Literals(d, Copied8(Now(d).lit))))
  ELSE IF EndsBlock(d) THEN [Literals(d, Now(d).lit) EXCEPT !.status = "done"]
  ELSE OutputError(d)

\* One turn of the main loop, with its shortcut for what is small and far from
\* both ends.
SafeSequence(d) ==
  LET t     == Token(d)
      short == Now(t).lit < RUN_MASK
      u     == Offset(Literals(t, 16))
      v     == IF short THEN t ELSE read_variable_length(t, Now(t).lit, t.iend - RUN_MASK, TRUE)
  IN  IF short /\ t.ip < t.iend - 16 /\ t.op <= t.cap - 32
      THEN IF IsShort(u) THEN Match18(u) ELSE CopyMatch(u)
      ELSE IF v.status = "error" THEN v ELSE SafeLiterals(v)
-----------------------------------------------------------------------------
\* Whether less than FASTLOOP_SAFE_DISTANCE is left behind the match.
MatchLeavesLoop(d) == d.op + Now(d).length >= d.cap - FASTLOOP_SAFE_DISTANCE

\* The fast loop's match within the block or the dictionary.
FastCopy(d) ==
  LET end == d.op + Now(d).length
  IN  IF OffsetOutside(d) THEN OutputError(d)
      ELSE IF InDictionary(d) THEN DictionaryMatch(d)
      ELSE IF Now(d).offset < 16
      THEN Matched(d, LZ4_memcpy_using_offset(d.mem, d.op, end, Now(d).offset),
                   UsingOffsetReaches(d.op, end, Now(d).offset))
      ELSE Matched(d, LZ4_wildCopy32(d.mem, d.op, Match(d), end), Reached(d.op, end, 32))

FastMatch(d) ==
  LET v == IF Code(d) < ML_MASK THEN d
           ELSE read_variable_length(d, Code(d), d.iend - LASTLITERALS + 1, FALSE)
  IN  IF v.status = "error" \/ (Code(d) >= ML_MASK /\ OffsetOutside(d)) THEN OutputError(v)
      ELSE IF MatchLeavesLoop(v) THEN SafeMatch(SafeLoop(v))
      ELSE IF IsShort(v) THEN Match18(v) ELSE FastCopy(v)

\* One turn of the fast loop.
FastSequence(d) ==
  LET t     == Token(d)
      short == Now(t).lit < RUN_MASK
      v     == IF short THEN t ELSE read_variable_length(t, Now(t).lit, t.iend - RUN_MASK, TRUE)
      leave == IF short THEN v.ip > v.iend - (16 + 1)
               ELSE v.op + Now(v).lit > v.cap - 32 \/ v.ip + Now(v).lit > v.iend - 32
  IN  IF v.status = "error" THEN v
      ELSE IF leave THEN SafeLiterals(SafeLoop(v))
      ELSE FastMatch(Offset(Literals(v, IF short THEN 16 ELSE Reached(0, Now(v).lit, 32))))
=============================================================================
