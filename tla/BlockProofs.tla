----------------------------- MODULE BlockProofs -----------------------------
(* The compressors of Block, for every input, every dictionary and every     *)
(* choice of matches; and its decoder, for every block they make, cut        *)
(* anywhere, with every dictionary and every room: that copies stay in their *)
(* buffers, and that what comes back is what was compressed.                 *)
EXTENDS Block, SumLemmas, TLAPS

\* Division, as the provers use it.
LEMMA Quotient ==
  ASSUME NEW n \in Nat, NEW d \in Nat \ {0}
  PROVE  /\ n \div d \in Nat
         /\ d * (n \div d) <= n
         /\ n < d * (n \div d) + d
BY SMT

LEMMA GreaterBound ==
  ASSUME NEW a \in Nat, NEW b \in Nat, NEW m \in Nat, a <= m, b <= m
  PROVE  Greater(a, b) \in Nat /\ Greater(a, b) <= m
BY DEF Greater

\* The bytes that a length takes beyond its token.
LEMMA LengthBytesBound ==
  ASSUME NEW n \in Nat
  PROVE  /\ LengthBytes(n, 15) \in Nat
         /\ n < 15 => LengthBytes(n, 15) = 0
         /\ n >= 15 => 255 * LengthBytes(n, 15) <= n + 240 /\ n <= 255 * LengthBytes(n, 15) + 14
<1>1. CASE n < 15
  BY <1>1, SMT DEF LengthBytes
<1>2. CASE n >= 15
  <2>1. /\ (n - 15) \div 255 \in Nat
        /\ 255 * ((n - 15) \div 255) <= n - 15
        /\ n - 15 < 255 * ((n - 15) \div 255) + 255
    BY <1>2, Quotient, SMT
  <2> QED
    BY <1>2, <2>1, SMT DEF LengthBytes
<1> QED
  BY <1>1, <1>2, SMT

\* Words of eight bytes go less than a word too far, and one is copied always.
LEMMA CopiedBound ==
  ASSUME NEW n \in Nat
  PROVE  Copied8(n) \in Nat /\ (n = 0 => Copied8(n) = 8) /\ (n > 0 => Copied8(n) <= n + 7)
<1>1. (n + 7) \div 8 \in Nat /\ 8 * ((n + 7) \div 8) <= n + 7
  BY Quotient, SMT
<1> QED
  BY <1>1, SMT DEF Copied8

\* The bound, for inputs of every size.
LEMMA CompressBound ==
  ASSUME NEW n \in Nat
  PROVE  LZ4_compressBound(n) \in Nat /\ 255 * LZ4_compressBound(n) >= 256 * n + 3826
<1>1. n \div 255 \in Nat /\ n < 255 * (n \div 255) + 255
  BY Quotient, SMT
<1> QED
  BY <1>1, SMT DEF LZ4_compressBound

-----------------------------------------------------------------------------
\* A compressor's fields, and what a step leaves of them.
IsRecord(e) ==
  DOMAIN e = {"n", "dict", "hc", "room", "ip", "op", "high", "read", "seqs", "data", "status"}

SameCall(f, e) == IsRecord(f) /\ f.n = e.n /\ f.room = e.room /\ f.hc = e.hc

LEMMA StatusChanged ==
  ASSUME NEW e, IsRecord(e), NEW status
  PROVE  LET f == [e EXCEPT !.status = status]
         IN  /\ SameCall(f, e) /\ f.status = status /\ f.ip = e.ip /\ f.op = e.op
             /\ f.high = e.high /\ f.read = e.read /\ f.seqs = e.seqs
BY DEF IsRecord, SameCall

\* What is known of a compressor at work.
IsEncoder(e) ==
  /\ IsRecord(e)
  /\ e.n \in Nat /\ e.room \in Nat /\ e.ip \in Nat /\ e.op \in Nat /\ e.high \in Nat /\ e.read \in Nat
  /\ e.hc \in BOOLEAN
  /\ e.status \in {"encoding", "encoded", "failed"}

Goes(e) == e.status = "encoding"

\* A block never outgrows its content by more than one byte in 256: the worst
\* sequence saves nothing.  What this leaves of the bound is what the checks of
\* room ask for.
Compact(e) == Goes(e) => e.ip <= e.n /\ 255 * e.op <= 256 * e.ip

\* Behind a match lz4.c has room for one more token and offset.
RoomForNext(e) == (Goes(e) /\ ~ e.hc /\ e.seqs # << >>) => e.op + 3 <= e.room

Contained(e) == e.high <= e.room /\ e.read <= e.n

\* The bound is the most that a compressor is given, and then it does not fail.
Suffices(e) ==
  e.room <= LZ4_compressBound(e.n) /\ (e.room = LZ4_compressBound(e.n) => e.status # "failed")

EncoderSound(e) == IsEncoder(e) /\ Compact(e) /\ RoomForNext(e) /\ Contained(e) /\ Suffices(e)

\* A sequence the compressor may choose.
IsMatch(s) == s.lit \in Nat /\ s.offset \in Nat /\ s.length \in Nat

-----------------------------------------------------------------------------
\* Where the parts of a sequence are written.
LEMMA Places ==
  ASSUME NEW e, IsEncoder(e), NEW s, IsMatch(s), MatchAllowed(e, s)
  PROVE  LET L == LengthBytes(s.lit, 15)
             M == LengthBytes(s.length - 4, 15)
         IN  /\ L \in Nat /\ M \in Nat
             /\ LiteralsAt(e, s) = e.op + 1 + L
             /\ MatchAt(e, s) = e.op + 3 + L + s.lit
             /\ SequenceSize(s) = 3 + L + s.lit + M
             /\ s.length >= 4
             /\ e.ip + s.lit <= e.n - 12 /\ e.ip + s.lit + s.length <= e.n - 5
<1>1. s.length >= 4 /\ e.ip + s.lit <= e.n - 12 /\ e.ip + s.lit + s.length <= e.n - 5
  BY SMT DEF MatchAllowed, MINMATCH, MFLIMIT, LASTLITERALS
<1>2. s.length - 4 \in Nat /\ s.length # 0
  BY <1>1, SMT DEF IsMatch
<1>3. LengthBytes(s.lit, 15) \in Nat /\ LengthBytes(s.length - 4, 15) \in Nat
  BY <1>2, LengthBytesBound DEF IsMatch
<1> QED
  BY <1>1, <1>2, <1>3, SMT
  DEF IsMatch, IsEncoder, LiteralsAt, MatchAt, SequenceSize, RUN_MASK, ML_MASK, MINMATCH

\* A sequence keeps the block compact.
LEMMA SequenceCompact ==
  ASSUME NEW e, IsEncoder(e), NEW s, IsMatch(s), MatchAllowed(e, s), 255 * e.op <= 256 * e.ip
  PROVE  255 * (e.op + SequenceSize(s)) <= 256 * (e.ip + s.lit + s.length)
<1> DEFINE L == LengthBytes(s.lit, 15)
           M == LengthBytes(s.length - 4, 15)
<1>1. L \in Nat /\ M \in Nat /\ SequenceSize(s) = 3 + L + s.lit + M /\ s.length >= 4
  BY Places
<1>2. s.lit \in Nat /\ s.length \in Nat /\ e.op \in Nat /\ e.ip \in Nat
  BY DEF IsMatch, IsEncoder
<1>3. 255 * L <= s.lit + 240
  BY <1>2, LengthBytesBound, SMT
<1>4. (s.length < 19 => M = 0) /\ (s.length >= 19 => 255 * M <= s.length - 4 + 240)
  BY <1>1, <1>2, LengthBytesBound, SMT
<1> HIDE DEF L, M
<1>5. CASE s.length < 19
  BY <1>1, <1>2, <1>3, <1>4, <1>5, SMT
<1>6. CASE s.length >= 19
  BY <1>1, <1>2, <1>3, <1>4, <1>6, SMT
<1> QED
  BY <1>2, <1>5, <1>6, SMT

-----------------------------------------------------------------------------
\* The room that literals need, the words they are copied in included, and the
\* room for a match's length behind them.
RoomForLiterals(e, s) == e.op + s.lit + s.lit \div 255 + 9 <= e.room
RoomForMatch(e, s) == MatchAt(e, s) + (s.length - 4 + 240) \div 255 + 5 <= e.room

\* With the room of the bound both are there, and the checks succeed.
LEMMA BoundFits ==
  ASSUME NEW e, IsEncoder(e), NEW s, IsMatch(s), MatchAllowed(e, s),
         255 * e.op <= 256 * e.ip, e.room = LZ4_compressBound(e.n)
  PROVE  /\ LiteralsFit(e, s) /\ MatchFits(e, s)
         /\ RoomForLiterals(e, s) /\ RoomForMatch(e, s)
<1> DEFINE L == LengthBytes(s.lit, 15)
<1>1. /\ L \in Nat /\ MatchAt(e, s) = e.op + 3 + L + s.lit
      /\ s.length >= 4 /\ e.ip + s.lit <= e.n - 12 /\ e.ip + s.lit + s.length <= e.n - 5
  BY Places
<1>2. s.lit \in Nat /\ s.length \in Nat /\ e.op \in Nat /\ e.ip \in Nat /\ e.n \in Nat /\ e.room \in Nat
  BY DEF IsMatch, IsEncoder
<1>3. 255 * L <= s.lit + 240
  BY <1>2, LengthBytesBound, SMT
<1>4. 255 * e.room >= 256 * e.n + 3826
  BY <1>2, CompressBound
<1> HIDE DEF L
<1>5. LiteralsFit(e, s) /\ RoomForLiterals(e, s)
  <2>1. s.lit \div 255 \in Nat /\ 255 * (s.lit \div 255) <= s.lit
    BY <1>2, Quotient, SMT
  <2>2. e.op + 1 + s.lit + 8 + s.lit \div 255 <= e.room
    BY <1>1, <1>2, <1>4, <2>1, SMT
  <2> QED
    BY <1>2, <2>1, <2>2, SMT DEF LiteralsFit, RoomForLiterals, LASTLITERALS
<1>6. MatchFits(e, s) /\ RoomForMatch(e, s)
  <2> DEFINE code == s.length - 4
  <2>1. code \in Nat
    BY <1>1, <1>2, SMT
  <2>2. code \div 255 \in Nat /\ 255 * (code \div 255) <= code
    BY <2>1, Quotient, SMT
  <2>3. (code + 240) \div 255 \in Nat /\ 255 * ((code + 240) \div 255) <= code + 240
    BY <2>1, Quotient, SMT
  <2>4. e.op + 3 + L + s.lit + code \div 255 + 6 <= e.room
    <3>1. 255 * (e.op + 3 + L + s.lit + code \div 255 + 6) <= 255 * e.room
      BY <1>1, <1>2, <1>3, <1>4, <2>2, SMT
    <3> QED
      BY <1>1, <1>2, <2>2, <3>1, SMT
  <2>5. e.op + 3 + L + s.lit + 6 + (code + 240) \div 255 <= e.room
    <3>1. 255 * (e.op + 3 + L + s.lit + 6 + (code + 240) \div 255) <= 255 * e.room
      BY <1>1, <1>2, <1>3, <1>4, <2>3, SMT
    <3> QED
      BY <1>1, <1>2, <2>3, <3>1, SMT
  <2>6. s.length - MINMATCH = code
    BY DEF MINMATCH
  <2>7. RoomForMatch(e, s)
    BY <1>1, <1>2, <2>3, <2>5, SMT DEF RoomForMatch
  <2> HIDE DEF code
  <2>8. MatchFits(e, s)
    BY <1>1, <1>2, <2>1, <2>2, <2>3, <2>4, <2>5, <2>6, SMT DEF MatchFits, LASTLITERALS
  <2> QED
    BY <2>7, <2>8
<1> QED
  BY <1>5, <1>6

\* Where less is given, the checks see to it.
LEMMA ChecksFit ==
  ASSUME NEW e, IsEncoder(e), NEW s, IsMatch(s), MatchAllowed(e, s), Limited(e)
  PROVE  /\ LiteralsFit(e, s) => RoomForLiterals(e, s)
         /\ MatchFits(e, s) => RoomForMatch(e, s)
<1> DEFINE code == s.length - 4
<1>1. MatchAt(e, s) \in Nat /\ code \in Nat /\ s.length - MINMATCH = code
  <2>1. s.length >= 4 /\ LengthBytes(s.lit, 15) \in Nat
        /\ MatchAt(e, s) = e.op + 3 + LengthBytes(s.lit, 15) + s.lit
    BY Places
  <2> QED
    BY <2>1, SMT DEF IsMatch, IsEncoder, MINMATCH
<1>2. s.lit \in Nat /\ e.op \in Nat /\ e.room \in Nat
  BY DEF IsMatch, IsEncoder
<1>3. code \div 255 \in Nat /\ code < 255 * (code \div 255) + 255
  BY <1>1, Quotient, SMT
<1>4. (code + 240) \div 255 \in Nat /\ 255 * ((code + 240) \div 255) <= code + 240
  BY <1>1, Quotient, SMT
<1>5. (code + 240) \div 255 <= code \div 255 + 1
  BY <1>1, <1>3, <1>4, SMT
<1>6. s.lit \div 255 \in Nat
  BY <1>2, Quotient, SMT
<1>7. LiteralsFit(e, s) => RoomForLiterals(e, s)
  BY <1>2, <1>6, SMT DEF LiteralsFit, RoomForLiterals, LASTLITERALS
<1>8. MatchFits(e, s) => RoomForMatch(e, s)
  BY <1>1, <1>2, <1>3, <1>4, <1>5, SMT DEF MatchFits, RoomForMatch, LASTLITERALS
<1> QED
  BY <1>7, <1>8

\* Literals are copied within their room, in words too.
LEMMA LiteralsContained ==
  ASSUME NEW e, IsEncoder(e), NEW s, IsMatch(s), MatchAllowed(e, s), RoomForLiterals(e, s)
  PROVE  MatchAt(e, s) <= e.room /\ LiteralsAt(e, s) + Copied8(s.lit) <= e.room
<1> DEFINE L == LengthBytes(s.lit, 15)
           C == Copied8(s.lit)
           q == s.lit \div 255
<1>1. /\ L \in Nat /\ LiteralsAt(e, s) = e.op + 1 + L /\ MatchAt(e, s) = e.op + 3 + L + s.lit
  BY Places
<1>2. s.lit \in Nat /\ e.op \in Nat /\ e.room \in Nat
  BY DEF IsMatch, IsEncoder
<1>3. q \in Nat /\ 255 * q <= s.lit /\ s.lit < 255 * q + 255
  BY <1>2, Quotient, SMT
<1>4. (s.lit < 15 => L = 0) /\ (s.lit >= 15 => 255 * L <= s.lit + 240)
  BY <1>2, LengthBytesBound
<1>5. C \in Nat /\ (s.lit = 0 => C = 8) /\ (s.lit > 0 => C <= s.lit + 7)
  BY <1>2, CopiedBound
<1>6. e.op + 1 + s.lit + 8 + q <= e.room
  BY <1>2, <1>3, SMT DEF RoomForLiterals
<1> HIDE DEF L, C, q
<1>7. L <= q + 1
  BY <1>1, <1>2, <1>3, <1>4, SMT
<1>8. CASE s.lit = 0
  BY <1>1, <1>2, <1>3, <1>4, <1>5, <1>6, <1>8, SMT DEF C
<1>9. CASE s.lit > 0
  BY <1>1, <1>2, <1>3, <1>5, <1>6, <1>7, <1>9, SMT DEF C
<1> QED
  BY <1>2, <1>8, <1>9, SMT

\* A match's length is written within its room, four bytes at a time too, and
\* room for the next token and offset remains.
LEMMA MatchContained ==
  ASSUME NEW e, IsEncoder(e), NEW s, IsMatch(s), MatchAllowed(e, s), RoomForMatch(e, s)
  PROVE  /\ LengthWritten(e, s) \in Nat
         /\ MatchAt(e, s) + LengthWritten(e, s) <= e.room
         /\ e.op + SequenceSize(s) + 3 <= e.room
<1> DEFINE code == s.length - 4
           M == LengthBytes(code, 15)
           q == (code + 240) \div 255
           w == (code - 15) \div 1020
<1>1. /\ M \in Nat /\ MatchAt(e, s) \in Nat /\ code \in Nat
      /\ e.op + SequenceSize(s) = MatchAt(e, s) + M
  <2>1. /\ LengthBytes(s.lit, 15) \in Nat /\ LengthBytes(s.length - 4, 15) \in Nat /\ s.length >= 4
        /\ MatchAt(e, s) = e.op + 3 + LengthBytes(s.lit, 15) + s.lit
        /\ SequenceSize(s) = 3 + LengthBytes(s.lit, 15) + s.lit + LengthBytes(s.length - 4, 15)
    BY Places
  <2> QED
    BY <2>1, SMT DEF IsMatch, IsEncoder
<1>2. q \in Nat /\ code + 240 < 255 * q + 255
  BY <1>1, Quotient, SMT
<1>3. code < 15 => M = 0
  BY <1>1, LengthBytesBound
<1>4. code >= 15 => 255 * M <= code + 240
  BY <1>1, LengthBytesBound
<1>5. ASSUME code >= 15 PROVE w \in Nat /\ 1020 * w <= code - 15
  <2>1. code - 15 \in Nat
    BY <1>1, <1>5, SMT
  <2> QED
    BY <2>1, Quotient, SMT
<1>6. e.room \in Nat /\ MatchAt(e, s) + q + 5 <= e.room
  BY DEF RoomForMatch, IsEncoder
<1>7. LengthWritten(e, s) = IF code < 15 THEN 0 ELSE IF e.hc THEN M ELSE 4 * (w + 1)
  BY DEF LengthWritten, MINMATCH, ML_MASK
<1> HIDE DEF code, M, q, w
<1>8. CASE code < 15
  BY <1>1, <1>2, <1>3, <1>6, <1>7, <1>8, SMT
<1>9. CASE code >= 15
  <2>1. M <= q /\ w \in Nat /\ 4 * w <= q
    BY <1>1, <1>2, <1>4, <1>5, <1>9, SMT
  <2> QED
    BY <1>1, <1>2, <1>6, <1>7, <1>9, <2>1, SMT
<1> QED
  BY <1>1, <1>8, <1>9, SMT

-----------------------------------------------------------------------------
\* A sequence that lz4.c writes right after a match.
MayBeDirect(e, s) == ~ e.hc /\ s.lit = 0 /\ e.seqs # << >>

\* A compressor that gives up, in less room than the bound.
LEMMA FailureSound ==
  ASSUME NEW e, EncoderSound(e), e.room # LZ4_compressBound(e.n), NEW f, SameCall(f, e),
         f.ip = e.ip, f.op = e.op, f.status = "failed",
         f.high \in Nat, f.high <= e.room, f.read \in Nat, f.read <= e.n
  PROVE  EncoderSound(f)
<1>1. IsEncoder(f)
  BY DEF EncoderSound, IsEncoder, SameCall
<1>2. ~ Goes(f)
  BY DEF Goes
<1> QED
  BY <1>1, <1>2, Zenon DEF SameCall, EncoderSound, Compact, RoomForNext, Contained, Suffices

\* A sequence, or the failure to write it, keeps all this.
LEMMA EncodeSequenceSound ==
  ASSUME NEW e, EncoderSound(e), Goes(e), NEW s, IsMatch(s), MatchAllowed(e, s),
         NEW direct \in BOOLEAN, direct => MayBeDirect(e, s)
  PROVE  EncoderSound(EncodeSequence(e, s, direct))
<1> DEFINE afterRead == IF direct THEN e.read ELSE Greater(e.read, e.ip + Copied8(s.lit))
           afterHigh == IF direct THEN Greater(e.high, e.op + 3)
                        ELSE Greater(e.high, Greater(MatchAt(e, s), LiteralsAt(e, s) + Copied8(s.lit)))
<1> HIDE DEF afterRead, afterHigh
<1>1. IsEncoder(e) /\ e.ip <= e.n /\ 255 * e.op <= 256 * e.ip /\ e.high <= e.room /\ e.read <= e.n
  BY DEF EncoderSound, Compact, Contained
<1>2. /\ e.n \in Nat /\ e.room \in Nat /\ e.ip \in Nat /\ e.op \in Nat /\ e.high \in Nat /\ e.read \in Nat
      /\ s.lit \in Nat /\ s.length \in Nat
  BY <1>1 DEF IsEncoder, IsMatch
<1>3. /\ MatchAt(e, s) \in Nat /\ LiteralsAt(e, s) \in Nat /\ SequenceSize(s) \in Nat
      /\ s.length >= 4 /\ e.ip + s.lit <= e.n - 12 /\ e.ip + s.lit + s.length <= e.n - 5
  <2> DEFINE L == LengthBytes(s.lit, 15)
             M == LengthBytes(s.length - 4, 15)
  <2>1. /\ L \in Nat /\ M \in Nat
        /\ LiteralsAt(e, s) = e.op + 1 + L
        /\ MatchAt(e, s) = e.op + 3 + L + s.lit
        /\ SequenceSize(s) = 3 + L + s.lit + M
        /\ s.length >= 4
        /\ e.ip + s.lit <= e.n - 12 /\ e.ip + s.lit + s.length <= e.n - 5
    BY <1>1, Places
  <2> HIDE DEF L, M
  <2> QED
    BY <1>2, <2>1, SMT
<1>4. ~ Limited(e) => e.room = LZ4_compressBound(e.n)
  <2>1. LZ4_compressBound(e.n) \in Nat
    BY <1>2, CompressBound
  <2>2. e.room <= LZ4_compressBound(e.n)
    BY DEF EncoderSound, Suffices
  <2> QED
    BY <1>2, <2>1, <2>2, SMT DEF Limited
<1>5. e.room = LZ4_compressBound(e.n) => LiteralsFit(e, s) /\ MatchFits(e, s)
  BY <1>1, BoundFits
<1>6. LiteralsFit(e, s) => RoomForLiterals(e, s)
  BY <1>1, <1>4, BoundFits, ChecksFit
<1>7. MatchFits(e, s) => RoomForMatch(e, s)
  BY <1>1, <1>4, BoundFits, ChecksFit
<1>8. afterRead \in Nat /\ afterRead <= e.n
  <2>1. Copied8(s.lit) \in Nat /\ (s.lit = 0 => Copied8(s.lit) = 8) /\ (s.lit > 0 => Copied8(s.lit) <= s.lit + 7)
    BY <1>2, CopiedBound
  <2>2. e.ip + Copied8(s.lit) \in Nat /\ e.ip + Copied8(s.lit) <= e.n
    BY <1>2, <1>3, <2>1, SMT
  <2> QED
    BY <1>1, <1>2, <2>2, GreaterBound DEF afterRead
<1>9. CASE ~ direct /\ ~ LiteralsFit(e, s)
  <2> DEFINE f == [e EXCEPT !.status = "failed"]
  <2>1. EncodeSequence(e, s, direct) = f
    BY <1>9 DEF EncodeSequence
  <2>2. e.room # LZ4_compressBound(e.n)
    BY <1>5, <1>9
  <2>3. /\ SameCall(f, e) /\ f.status = "failed" /\ f.ip = e.ip /\ f.op = e.op
        /\ f.high = e.high /\ f.read = e.read
    BY <1>1, StatusChanged, ZenonT(60) DEF IsEncoder
  <2> HIDE DEF f
  <2>4. EncoderSound(f)
    BY <1>1, <1>2, <2>2, <2>3, FailureSound
  <2> QED
    BY <2>1, <2>4
<1>10. CASE direct \/ LiteralsFit(e, s)
  <2>1. afterHigh \in Nat /\ afterHigh <= e.room
    <3>1. Copied8(s.lit) \in Nat
      BY <1>2, CopiedBound
    <3>2. CASE direct
      <4>1. e.op + 3 <= e.room
        BY <3>2 DEF EncoderSound, RoomForNext, MayBeDirect
      <4>2. e.op + 3 \in Nat
        BY <1>2, SMT
      <4> QED
        BY <1>1, <1>2, <3>2, <4>1, <4>2, GreaterBound DEF afterHigh
    <3>3. CASE ~ direct
      <4>1. MatchAt(e, s) <= e.room /\ LiteralsAt(e, s) + Copied8(s.lit) <= e.room
        BY <1>1, <1>6, <1>10, <3>3, LiteralsContained
      <4>2. LiteralsAt(e, s) + Copied8(s.lit) \in Nat
        BY <1>3, <3>1, SMT
      <4> DEFINE both == Greater(MatchAt(e, s), LiteralsAt(e, s) + Copied8(s.lit))
      <4>3. both \in Nat /\ both <= e.room
        BY <1>2, <1>3, <4>1, <4>2, GreaterBound
      <4> QED
        BY <1>1, <1>2, <3>3, <4>3, GreaterBound DEF afterHigh
    <3> QED
      BY <3>2, <3>3
  <2> DEFINE c == [e EXCEPT !.read = afterRead, !.high = afterHigh]
  <2>2. /\ SameCall(c, e) /\ c.status = e.status /\ c.ip = e.ip /\ c.op = e.op
        /\ c.high = afterHigh /\ c.read = afterRead /\ c.seqs = e.seqs
    BY <1>1 DEF IsEncoder, IsRecord, SameCall
  <2>3. EncodeSequence(e, s, direct) =
          IF ~ MatchFits(e, s) THEN [c EXCEPT !.status = "failed"]
          ELSE [c EXCEPT !.high = Greater(c.high, MatchAt(e, s) + LengthWritten(e, s)),
                         !.op = c.op + SequenceSize(s), !.ip = c.ip + s.lit + s.length,
                         !.seqs = Append(c.seqs, Placed(e, s)), !.data = WithSequence(e, s)]
    BY <1>10 DEF EncodeSequence, afterRead, afterHigh
  <2> HIDE DEF c
  <2>4. CASE ~ MatchFits(e, s)
    <3> DEFINE f == [c EXCEPT !.status = "failed"]
    <3>1. EncodeSequence(e, s, direct) = f
      BY <2>3, <2>4
    <3>2. e.room # LZ4_compressBound(e.n)
      BY <1>5, <2>4
    <3>3. /\ SameCall(f, c) /\ f.status = "failed" /\ f.ip = c.ip /\ f.op = c.op
          /\ f.high = c.high /\ f.read = c.read
      BY <2>2, StatusChanged DEF SameCall
    <3> HIDE DEF f
    <3>4. SameCall(f, e)
      BY <2>2, <3>3 DEF SameCall
    <3>5. EncoderSound(f)
      BY <1>8, <2>1, <2>2, <3>2, <3>3, <3>4, FailureSound
    <3> QED
      BY <3>1, <3>5
  <2>5. CASE MatchFits(e, s)
    <3> DEFINE high == Greater(afterHigh, MatchAt(e, s) + LengthWritten(e, s))
               op == e.op + SequenceSize(s)
               ip == e.ip + s.lit + s.length
               seqs == Append(e.seqs, Placed(e, s))
               data == WithSequence(e, s)
               f == [c EXCEPT !.high = high, !.op = op, !.ip = ip, !.seqs = seqs, !.data = data]
    <3>1. EncodeSequence(e, s, direct) = f
      BY <2>2, <2>3, <2>5
    <3>2. high \in Nat /\ high <= e.room /\ op + 3 <= e.room
      <4>1. /\ LengthWritten(e, s) \in Nat
            /\ MatchAt(e, s) + LengthWritten(e, s) <= e.room
            /\ e.op + SequenceSize(s) + 3 <= e.room
        BY <1>1, <1>7, <2>5, MatchContained
      <4>2. MatchAt(e, s) + LengthWritten(e, s) \in Nat
        BY <1>3, <4>1, SMT
      <4> QED
        BY <1>2, <2>1, <4>1, <4>2, GreaterBound
    <3>3. 255 * op <= 256 * ip
      BY <1>1, SequenceCompact
    <3>4. op \in Nat /\ ip \in Nat /\ ip <= e.n
      BY <1>2, <1>3, SMT
    <3> HIDE DEF high, op, ip, seqs, data
    <3>5. /\ SameCall(f, c) /\ f.status = c.status /\ f.ip = ip /\ f.op = op
          /\ f.high = high /\ f.read = c.read
      BY <2>2 DEF IsRecord, SameCall
    <3> HIDE DEF f
    <3>6. IsEncoder(f)
      BY <1>1, <1>8, <2>2, <3>2, <3>4, <3>5 DEF IsEncoder, SameCall
    <3>7. Compact(f) /\ RoomForNext(f) /\ Contained(f) /\ Suffices(f)
      BY <1>8, <2>2, <3>2, <3>3, <3>4, <3>5, ZenonT(60)
      DEF EncoderSound, SameCall, Goes, Compact, RoomForNext, Contained, Suffices
    <3> QED
      BY <3>1, <3>6, <3>7 DEF EncoderSound
  <2> QED
    BY <2>4, <2>5
<1> QED
  BY <1>9, <1>10

\* The last literals, or the failure to write them.
LEMMA EncodeLastSound ==
  ASSUME NEW e, EncoderSound(e), Goes(e)
  PROVE  EncoderSound(EncodeLast(e))
<1> DEFINE last == [lit |-> e.n - e.ip, offset |-> 0, length |-> 0]
           lit == e.n - e.ip
           L == LengthBytes(lit, 15)
           q == (lit + 240) \div 255
           op == e.op + SequenceSize(last)
<1>1. IsEncoder(e) /\ e.ip <= e.n /\ 255 * e.op <= 256 * e.ip /\ e.high <= e.room /\ e.read <= e.n
  BY DEF EncoderSound, Compact, Contained
<1>2. /\ e.n \in Nat /\ e.room \in Nat /\ e.ip \in Nat /\ e.op \in Nat /\ e.high \in Nat /\ e.read \in Nat
  BY <1>1 DEF IsEncoder
<1>3. lit \in Nat /\ lit = e.n - e.ip
  BY <1>1, <1>2, SMT
<1>4. L \in Nat /\ (lit < 15 => L = 0) /\ (lit >= 15 => 255 * L <= lit + 240)
  BY <1>3, LengthBytesBound
<1>5. q \in Nat /\ 255 * q <= lit + 240 /\ lit + 240 < 255 * q + 255
  BY <1>3, Quotient, SMT
<1>6. op = e.op + (1 + L + lit + 0)
  BY DEF SequenceSize, RUN_MASK
<1> HIDE DEF L, q, op, lit
<1>7. L <= q /\ op \in Nat /\ op <= e.op + lit + 1 + q
  BY <1>2, <1>3, <1>4, <1>5, <1>6, SMT
<1>8. e.room = LZ4_compressBound(e.n) => e.op + lit + 1 + q <= e.room
  <2>1. 255 * LZ4_compressBound(e.n) >= 256 * e.n + 3826
    BY <1>2, CompressBound
  <2>2. ASSUME e.room = LZ4_compressBound(e.n) PROVE 255 * (e.op + lit + 1 + q) <= 255 * e.room
    BY <1>1, <1>2, <1>3, <1>5, <2>1, <2>2, SMT
  <2> QED
    BY <1>2, <1>3, <1>5, <2>2, SMT
<1>9. ~ Limited(e) => e.room = LZ4_compressBound(e.n)
  <2>1. LZ4_compressBound(e.n) \in Nat
    BY <1>2, CompressBound
  <2>2. e.room <= LZ4_compressBound(e.n)
    BY DEF EncoderSound, Suffices
  <2> QED
    BY <1>2, <2>1, <2>2, SMT DEF Limited
<1>10. CASE Limited(e) /\ e.op + lit + 1 + q > e.room
  <2> DEFINE f == [e EXCEPT !.status = "failed"]
  <2>1. EncodeLast(e) = f
    BY <1>10 DEF EncodeLast, lit, q
  <2>2. e.room # LZ4_compressBound(e.n)
    BY <1>2, <1>3, <1>5, <1>8, <1>10, SMT
  <2>3. /\ SameCall(f, e) /\ f.status = "failed" /\ f.ip = e.ip /\ f.op = e.op
        /\ f.high = e.high /\ f.read = e.read
    BY <1>1, StatusChanged, SMTT(60) DEF IsEncoder
  <2> HIDE DEF f
  <2>4. EncoderSound(f)
    BY <1>1, <1>2, <2>2, <2>3, FailureSound
  <2> QED
    BY <2>1, <2>4
<1>11. CASE ~ (Limited(e) /\ e.op + lit + 1 + q > e.room)
  <2> DEFINE high == Greater(e.high, op)
             seqs == Append(e.seqs, Placed(e, last))
             data == e.data \o [i \in 1 .. lit |-> e.ip + i - 1]
             f == [e EXCEPT !.status = "encoded", !.op = op, !.high = high, !.read = e.n, !.ip = e.n,
                            !.seqs = seqs, !.data = data]
  <2>1. EncodeLast(e) = f
    BY <1>11 DEF EncodeLast, lit, q, op
  <2>2. high \in Nat /\ high <= e.room
    <3>1. op <= e.room
      BY <1>2, <1>3, <1>5, <1>7, <1>8, <1>9, <1>11, SMT
    <3> QED
      BY <1>1, <1>2, <1>7, <3>1, GreaterBound
  <2> HIDE DEF high, seqs, data
  <2>3. /\ SameCall(f, e) /\ f.status = "encoded" /\ f.ip = e.n /\ f.op = op
        /\ f.high = high /\ f.read = e.n
    BY <1>1 DEF IsEncoder, IsRecord, SameCall
  <2> HIDE DEF f
  <2>4. IsEncoder(f)
    BY <1>1, <1>7, <2>2, <2>3 DEF IsEncoder, SameCall
  <2>5. ~ Goes(f) /\ f.status # "failed" /\ e.n <= e.n
    BY <1>2, <2>3 DEF Goes
  <2>6. EncoderSound(f)
    BY <2>2, <2>3, <2>4, <2>5, Zenon DEF SameCall, EncoderSound, Compact, RoomForNext, Contained, Suffices
  <2> QED
    BY <2>1, <2>6
<1> QED
  BY <1>10, <1>11

\* A compressor begins sound.
LEMMA EncoderBegins ==
  ASSUME NEW n \in Nat, NEW dict, NEW hc \in BOOLEAN, NEW room \in Nat, room <= LZ4_compressBound(n)
  PROVE  EncoderSound(Encoder(n, dict, hc, room))
<1> DEFINE f == Encoder(n, dict, hc, room)
<1>1. /\ IsRecord(f) /\ f.n = n /\ f.room = room /\ f.hc = hc /\ f.ip = 0 /\ f.op = 0
      /\ f.high = 0 /\ f.read = 0 /\ f.seqs = << >> /\ f.status = "encoding"
  BY DEF Encoder, IsRecord
<1> HIDE DEF f
<1>2. IsEncoder(f)
  BY <1>1 DEF IsEncoder
<1>3. Compact(f) /\ Contained(f)
  BY <1>1, SMT DEF Compact, Contained
<1>4. RoomForNext(f) /\ Suffices(f)
  BY <1>1 DEF RoomForNext, Suffices
<1> QED
  BY <1>2, <1>3, <1>4 DEF EncoderSound, f
-----------------------------------------------------------------------------
IInv == EncoderSound(enc)

LEMMA NoEncoderSound == EncoderSound(NoEncoder)
<1>1. LZ4_compressBound(0) \in Nat
  BY CompressBound
<1>2. 0 <= LZ4_compressBound(0)
  BY <1>1
<1> QED
  BY <1>2, EncoderBegins DEF NoEncoder

LEMMA InitIInv == Init => IInv
BY NoEncoderSound DEF Init, IInv

LEMMA NextIInv == IInv /\ [Next]_vars => IInv'
<1> SUFFICES ASSUME EncoderSound(enc), [Next]_vars PROVE EncoderSound(enc')
  BY DEF IInv
<1>1. CASE compress
  <2>1. PICK n \in Sizes, dict \in DictSizes, hc \in BOOLEAN :
          enc' = Encoder(n, dict, hc, LZ4_compressBound(n))
    BY <1>1 DEF compress
  <2>2. n \in Nat
    BY BlockAssumption
  <2>3. LZ4_compressBound(n) \in Nat
    BY <2>2, CompressBound
  <2>4. LZ4_compressBound(n) <= LZ4_compressBound(n)
    BY <2>3, SMT
  <2> QED
    BY <2>1, <2>2, <2>3, <2>4, EncoderBegins
<1>2. CASE LZ4F_makeBlock
  <2>1. PICK n \in Sizes \ {0}, dict \in DictSizes, hc \in BOOLEAN : enc' = Encoder(n, dict, hc, n - 1)
    BY <1>2 DEF LZ4F_makeBlock
  <2>2. n \in Nat /\ n # 0
    BY BlockAssumption
  <2>3. LZ4_compressBound(n) \in Nat /\ 255 * LZ4_compressBound(n) >= 256 * n + 3826
    BY <2>2, CompressBound
  <2>4. n - 1 \in Nat /\ n - 1 <= LZ4_compressBound(n)
    BY <2>2, <2>3, SMT
  <2> QED
    BY <2>1, <2>2, <2>4, EncoderBegins
<1>3. CASE EncodeMatch
  <2>1. PICK s \in Matches, direct \in BOOLEAN :
          /\ MatchAllowed(enc, s)
          /\ direct => MayBeDirect(enc, s)
          /\ enc' = EncodeSequence(enc, s, direct)
    BY <1>3 DEF EncodeMatch, MayBeDirect
  <2>2. IsMatch(s)
    BY BlockAssumption DEF IsMatch
  <2>3. Goes(enc)
    BY <1>3 DEF EncodeMatch, Encoding, Goes
  <2> QED
    BY <2>1, <2>2, <2>3, EncodeSequenceSound
<1>4. CASE EncodeLastLiterals
  <2>1. Goes(enc) /\ enc' = EncodeLast(enc)
    BY <1>4 DEF EncodeLastLiterals, Encoding, Goes
  <2> QED
    BY <2>1, EncodeLastSound
<1>5. CASE CompressReturns
  BY <1>5, NoEncoderSound DEF CompressReturns
<1>6. CASE decompress \/ FastLoop \/ MainLoop \/ DecompressReturns \/ Again \/ Done
  BY <1>6 DEF decompress, FastLoop, MainLoop, DecompressReturns, Again, Done
<1>7. CASE UNCHANGED vars
  BY <1>7 DEF vars
<1> QED
  BY <1>1, <1>2, <1>3, <1>4, <1>5, <1>6, <1>7 DEF Next

LEMMA Inductive == Spec => []IInv
<1> QED
  BY InitIInv, NextIInv, PTL DEF Spec

\* lz4.block.compress never raises "Compression failed" (_block.c:244): in the
\* room of LZ4_compressBound, any input with any matches fits.
THEOREM CompressNeverFails == Spec => []NeverFails
<1>1. IInv => NeverFails
  BY DEF IInv, EncoderSound, Suffices, NeverFails
<1> QED
  BY <1>1, Inductive, PTL

-----------------------------------------------------------------------------
(* The decoder: no copy leaves its buffer.                                   *)

\* A decoder's fields, and what a turn of a loop leaves of them.
DecoderFields ==
  {"seqs", "dict", "iend", "cap", "k", "ip", "op", "mem", "fast", "rhigh", "rlow", "whigh", "status"}

SameBlock(f, d) ==
  /\ DOMAIN f = DecoderFields
  /\ f.seqs = d.seqs /\ f.dict = d.dict /\ f.iend = d.iend /\ f.cap = d.cap

IsDecoder(d) ==
  /\ DOMAIN d = DecoderFields
  /\ d.dict \in Nat /\ d.iend \in Nat /\ d.cap \in Nat
  /\ d.ip \in Nat /\ d.op \in Nat /\ d.rhigh \in Nat /\ d.whigh \in Nat /\ d.rlow \in Int /\ d.k \in Nat

\* No read and no write has been out of bounds.
Inside(d) == d.rhigh <= d.iend /\ d.whigh <= d.cap /\ - d.rlow <= d.dict

Decoding(d) == d.status = "decoding"
Failed(d)   == d.status = "error"

\* Within a turn: all but its place, and what it has copied, is as it was.
Within(f, d) ==
  /\ SameBlock(f, d) /\ IsDecoder(f) /\ Inside(f)
  /\ f.k = d.k /\ f.status = d.status /\ (f.fast => d.fast)

\* The turn is the last, for an error or for the block's end.
Ends(f, d) == SameBlock(f, d) /\ IsDecoder(f) /\ Inside(f) /\ ~ Decoding(f)

\* The fast loop is left before it comes close to the end.
RoomAhead(d) == d.fast => d.op + 64 <= d.cap

\* The turn is over, and the next sequence begins at ip.
Arrives(f, d, ip) ==
  /\ SameBlock(f, d) /\ IsDecoder(f) /\ Inside(f)
  /\ f.k = d.k + 1 /\ f.ip = ip /\ f.ip < f.iend /\ f.op <= f.cap
  /\ RoomAhead(f) /\ Now(d).length >= 4

Turns(f, d, ip) == Ends(f, d) \/ Arrives(f, d, ip)

IsSequence(s) ==
  /\ s.token \in Nat /\ s.lit \in Nat /\ s.offset \in Nat /\ s.length \in Nat
  /\ s.length = 0 \/ s.length >= 4

\* What the operations of a turn begin with.
AtWork(d) == IsDecoder(d) /\ Inside(d) /\ IsSequence(Now(d))

LEMMA WithinAgain ==
  ASSUME NEW d, NEW v, Within(v, d)
  PROVE  /\ Now(v) = Now(d) /\ Code(v) = Code(d)
         /\ v.iend = d.iend /\ v.cap = d.cap /\ v.dict = d.dict
         /\ AtWork(d) => AtWork(v)
         /\ Decoding(d) => Decoding(v) /\ ~ Failed(v)
         /\ ~ d.fast => ~ v.fast
         /\ \A f : Within(f, v) => Within(f, d)
         /\ \A f, ip : Turns(f, v, ip) => Turns(f, d, ip)
<1>1. Now(v) = Now(d)
  BY DEF Within, SameBlock, Now
<1>2. Code(v) = Code(d)
  BY <1>1 DEF Code
<1>3. Decoding(d) => Decoding(v) /\ ~ Failed(v)
  BY DEF Within, Decoding, Failed
<1>4. ASSUME NEW f, Within(f, v) PROVE Within(f, d)
  BY <1>4 DEF Within, SameBlock
<1>5. ASSUME NEW f, NEW ip, Turns(f, v, ip) PROVE Turns(f, d, ip)
  BY <1>1, <1>5 DEF Turns, Ends, Arrives, Within, SameBlock
<1> QED
  BY <1>1, <1>2, <1>3, <1>4, <1>5 DEF Within, SameBlock, AtWork

-----------------------------------------------------------------------------
(* The operations a turn is made of.                                         *)

LEMMA WordsReach ==
  ASSUME NEW to \in Nat, NEW end \in Nat, NEW size \in {8, 32}
  PROVE  /\ Reached(to, end, size) \in Nat
         /\ end <= to => Reached(to, end, size) = to + size
         /\ end > to => Reached(to, end, size) <= end + size - 1
<1>1. CASE end <= to
  BY <1>1, SMT DEF Reached, Words
<1>2. CASE end > to /\ size = 8
  <2>1. end - to + 7 \in Nat /\ end - to + 8 - 1 = end - to + 7
    BY <1>2, SMT
  <2>2. (end - to + 7) \div 8 \in Nat /\ 8 * ((end - to + 7) \div 8) <= end - to + 7
    BY <2>1, Quotient, SMT
  <2> QED
    BY <1>2, <2>1, <2>2, SMT DEF Reached, Words
<1>3. CASE end > to /\ size = 32
  <2>1. end - to + 31 \in Nat /\ end - to + 32 - 1 = end - to + 31
    BY <1>3, SMT
  <2>2. (end - to + 31) \div 32 \in Nat /\ 32 * ((end - to + 31) \div 32) <= end - to + 31
    BY <2>1, Quotient, SMT
  <2> QED
    BY <1>3, <2>1, <2>2, SMT DEF Reached, Words
<1> QED
  BY <1>1, <1>2, <1>3, SMT

LEMMA StatusEnds ==
  ASSUME NEW d, NEW v, SameBlock(v, d), IsDecoder(v), Inside(v), NEW status, status # "decoding"
  PROVE  LET f == [v EXCEPT !.status = status]
         IN  Ends(f, d) /\ f.status = status
<1> DEFINE f == [v EXCEPT !.status = status]
<1>1. /\ SameBlock(f, v) /\ f.status = status /\ f.k = v.k /\ f.ip = v.ip /\ f.op = v.op
      /\ f.rhigh = v.rhigh /\ f.whigh = v.whigh /\ f.rlow = v.rlow
  BY DEF SameBlock, IsDecoder, DecoderFields
<1> HIDE DEF f
<1>2. ~ Decoding(f)
  BY <1>1 DEF Decoding
<1> QED
  BY <1>1, <1>2 DEF Ends, SameBlock, IsDecoder, Inside, f

LEMMA ErrorEnds ==
  ASSUME NEW d, IsDecoder(d), Inside(d)
  PROVE  Ends(OutputError(d), d) /\ Failed(OutputError(d))
<1>1. SameBlock(d, d) /\ "error" # "decoding"
  BY DEF SameBlock, IsDecoder
<1> QED
  BY <1>1, StatusEnds DEF OutputError, Failed

LEMMA SafeLoopWithin ==
  ASSUME NEW d, IsDecoder(d), Inside(d)
  PROVE  LET f == SafeLoop(d) IN Within(f, d) /\ f.ip = d.ip /\ f.op = d.op /\ ~ f.fast
<1> DEFINE f == SafeLoop(d)
<1>1. /\ SameBlock(f, d) /\ f.fast = FALSE /\ f.k = d.k /\ f.ip = d.ip /\ f.op = d.op
      /\ f.rhigh = d.rhigh /\ f.whigh = d.whigh /\ f.rlow = d.rlow /\ f.status = d.status
  BY DEF SafeLoop, SameBlock, IsDecoder, DecoderFields
<1> HIDE DEF f
<1> QED
  BY <1>1 DEF Within, SameBlock, IsDecoder, Inside, f

LEMMA ReadToWithin ==
  ASSUME NEW d, IsDecoder(d), Inside(d), NEW n \in Nat, d.ip + n <= d.iend
  PROVE  Within(ReadTo(d, n), d) /\ ReadTo(d, n).ip = d.ip + n /\ ReadTo(d, n).op = d.op
<1> DEFINE f == ReadTo(d, n)
           high == Greater(d.rhigh, d.ip + n)
<1>1. /\ SameBlock(f, d) /\ f.fast = d.fast /\ f.k = d.k /\ f.ip = d.ip + n /\ f.op = d.op
      /\ f.rhigh = high /\ f.whigh = d.whigh /\ f.rlow = d.rlow /\ f.status = d.status
  BY DEF ReadTo, SameBlock, IsDecoder, DecoderFields
<1>2. d.ip + n \in Nat /\ d.rhigh \in Nat /\ d.iend \in Nat /\ d.rhigh <= d.iend
  BY DEF IsDecoder, Inside
<1>3. high \in Nat /\ high <= d.iend
  BY <1>2, GreaterBound
<1> HIDE DEF f, high
<1> QED
  BY <1>1, <1>2, <1>3 DEF Within, SameBlock, IsDecoder, Inside, f

\* A length is read to its end, or as far as one byte behind the limit.
LEMMA VariableLength ==
  ASSUME NEW d, IsDecoder(d), Inside(d), NEW length \in Nat, NEW limit \in Int, limit < d.iend,
         NEW initialCheck \in BOOLEAN, initialCheck \/ d.ip < d.iend
  PROVE  LET f == read_variable_length(d, length, limit, initialCheck)
         IN  \/ Ends(f, d) /\ Failed(f)
             \/ /\ Within(f, d) /\ f.op = d.op
                /\ f.ip = d.ip + LengthBytes(length, 15) /\ f.ip <= limit
<1> DEFINE f == read_variable_length(d, length, limit, initialCheck)
           bytes == LengthBytes(length, 15)
           n == Least(d.ip + bytes, Greater(limit, d.ip) + 1)
           high == Greater(d.rhigh, n)
           g == [d EXCEPT !.rhigh = high]
<1>1. bytes \in Nat
  BY LengthBytesBound
<1>2. d.ip \in Nat /\ d.iend \in Nat /\ d.rhigh \in Nat /\ d.rhigh <= d.iend
  BY DEF IsDecoder, Inside
<1>3. f = IF initialCheck /\ d.ip >= limit THEN OutputError(d)
          ELSE IF d.ip + bytes > limit THEN OutputError(g) ELSE ReadTo(d, bytes)
  BY DEF read_variable_length, RUN_MASK
<1> HIDE DEF f, bytes
<1>4. CASE initialCheck /\ d.ip >= limit
  BY <1>3, <1>4, ErrorEnds DEF f
<1>5. CASE ~ (initialCheck /\ d.ip >= limit) /\ d.ip + bytes > limit
  <2>1. initialCheck => d.ip < limit
    BY <1>2, <1>5
  <2>2. d.ip < d.iend
    BY <1>2, <2>1
  <2>3. n \in Nat /\ n <= d.iend
    BY <1>1, <1>2, <2>2, SMT DEF Least, Greater
  <2> HIDE DEF n
  <2>4. high \in Nat /\ high <= d.iend
    BY <1>2, <2>3, GreaterBound
  <2> HIDE DEF high
  <2>5. /\ SameBlock(g, d) /\ g.k = d.k /\ g.ip = d.ip /\ g.op = d.op
        /\ g.rhigh = high /\ g.whigh = d.whigh /\ g.rlow = d.rlow
    BY DEF SameBlock, IsDecoder, DecoderFields
  <2> HIDE DEF g
  <2>6. IsDecoder(g) /\ Inside(g)
    BY <2>4, <2>5 DEF SameBlock, IsDecoder, Inside
  <2>7. Ends(OutputError(g), g) /\ Failed(OutputError(g))
    BY <2>6, ErrorEnds
  <2>8. Ends(OutputError(g), d)
    BY <2>5, <2>7 DEF Ends, SameBlock
  <2> QED
    BY <1>3, <1>5, <2>7, <2>8 DEF f
<1>6. CASE ~ (initialCheck /\ d.ip >= limit) /\ ~ (d.ip + bytes > limit)
  <2>1. f = ReadTo(d, bytes)
    BY <1>3, <1>6
  <2>2. d.ip + bytes <= limit /\ d.ip + bytes <= d.iend
    BY <1>1, <1>2, <1>6, SMT
  <2> QED
    BY <1>1, <2>1, <2>2, ReadToWithin DEF f, bytes
<1> QED
  BY <1>4, <1>5, <1>6

\* Literals, copied in so many bytes.
LEMMA LiteralsWithin ==
  ASSUME NEW d, AtWork(d), NEW bytes \in Nat, d.ip + bytes <= d.iend, d.op + bytes <= d.cap
  PROVE  LET f == Literals(d, bytes)
         IN  Within(f, d) /\ f.ip = d.ip + Now(d).lit /\ f.op = d.op + Now(d).lit
<1> DEFINE f == Literals(d, bytes)
           rhigh == Greater(d.rhigh, d.ip + bytes)
           whigh == Greater(d.whigh, d.op + bytes)
<1>1. /\ SameBlock(f, d) /\ f.fast = d.fast /\ f.k = d.k /\ f.status = d.status
      /\ f.ip = d.ip + Now(d).lit /\ f.op = d.op + Now(d).lit
      /\ f.rhigh = rhigh /\ f.whigh = whigh /\ f.rlow = d.rlow
  BY DEF Literals, SameBlock, AtWork, IsDecoder, DecoderFields
<1>2. /\ d.ip + bytes \in Nat /\ d.rhigh \in Nat /\ d.iend \in Nat /\ d.rhigh <= d.iend
      /\ d.op + bytes \in Nat /\ d.whigh \in Nat /\ d.cap \in Nat /\ d.whigh <= d.cap
  BY DEF AtWork, IsDecoder, Inside
<1>3. rhigh \in Nat /\ rhigh <= d.iend /\ whigh \in Nat /\ whigh <= d.cap
  BY <1>2, GreaterBound
<1> HIDE DEF f, rhigh, whigh
<1>4. Now(d).lit \in Nat
  BY DEF AtWork, IsSequence
<1> QED
  BY <1>1, <1>2, <1>3, <1>4 DEF Within, SameBlock, AtWork, IsDecoder, Inside, f

-----------------------------------------------------------------------------
(* Matches.                                                                  *)

\* A decoder that has read an offset, with or without the length.
AtOffset(d) == AtWork(d) /\ Now(d).length >= 4 /\ d.ip < d.iend

\* The match leaves the fast loop enough room.
RoomBehind(d) == d.fast => d.op + Now(d).length + 64 <= d.cap

\* A decoder about to copy a match.
AtMatch(d) == AtOffset(d) /\ RoomBehind(d)

LEMMA MatchedArrives ==
  ASSUME NEW d, AtMatch(d), ~ OffsetOutside(d), d.op + Now(d).length <= d.cap,
         NEW mem, NEW written \in Nat, written <= d.cap
  PROVE  Turns(Matched(d, mem, written), d, d.ip)
<1> DEFINE f == Matched(d, mem, written)
           high == Greater(d.whigh, written)
           low == Least(d.rlow, Match(d))
<1>1. /\ SameBlock(f, d) /\ f.fast = d.fast /\ f.k = d.k + 1
      /\ f.ip = d.ip /\ f.op = d.op + Now(d).length
      /\ f.rhigh = d.rhigh /\ f.whigh = high /\ f.rlow = low
  BY DEF Matched, SameBlock, AtMatch, AtOffset, AtWork, IsDecoder, DecoderFields
<1>2. /\ d.op \in Nat /\ d.rlow \in Int /\ d.dict \in Nat /\ - d.rlow <= d.dict
      /\ d.whigh \in Nat /\ d.cap \in Nat /\ d.whigh <= d.cap
      /\ Now(d).length \in Nat /\ Now(d).offset \in Nat
  BY DEF AtMatch, AtOffset, AtWork, IsDecoder, Inside, IsSequence
<1>3. high \in Nat /\ high <= d.cap
  BY <1>2, GreaterBound
<1>4. low \in Int /\ - low <= d.dict
  BY <1>2, SMT DEF Least, Match, OffsetOutside
<1> HIDE DEF f, high, low
<1>5. RoomAhead(f)
  BY <1>1 DEF RoomAhead, RoomBehind, AtMatch, SameBlock
<1> QED
  BY <1>1, <1>2, <1>3, <1>4, <1>5
  DEF Turns, Arrives, SameBlock, AtMatch, AtOffset, AtWork, IsDecoder, Inside, f

\* The bytes of a match that are not written as its token's.
LEMMA CodeOf ==
  ASSUME NEW d, AtOffset(d)
  PROVE  /\ Code(d) = Now(d).length - 4 /\ Code(d) \in Nat
         /\ Now(d).length \in Nat /\ Now(d).lit \in Nat /\ Now(d).offset \in Nat
         /\ d.op \in Nat /\ d.cap \in Nat /\ d.dict \in Nat /\ d.ip \in Nat /\ d.iend \in Nat
         /\ Match(d) \in Int
BY SMT DEF AtOffset, AtWork, IsSequence, IsDecoder, Code, Greater, MINMATCH, Match

LEMMA Match18Turns ==
  ASSUME NEW d, AtMatch(d), IsShort(d), d.op + 18 <= d.cap
  PROVE  Turns(Match18(d), d, d.ip)
<1>1. ~ OffsetOutside(d)
  BY CodeOf, SMT DEF AtMatch, IsShort, OffsetOutside
<1>2. d.op + Now(d).length <= d.cap /\ d.op + 18 \in Nat
  BY CodeOf, SMT DEF AtMatch, IsShort, ML_MASK
<1> QED
  BY <1>1, <1>2, MatchedArrives DEF Match18

LEMMA DictionaryMatchTurns ==
  ASSUME NEW d, AtMatch(d), ~ OffsetOutside(d)
  PROVE  Turns(DictionaryMatch(d), d, d.ip)
<1> DEFINE end == d.op + Now(d).length
<1>1. end \in Nat /\ d.cap \in Nat
  BY CodeOf DEF AtMatch
<1>2. CASE end > d.cap - LASTLITERALS
  BY <1>2, ErrorEnds DEF DictionaryMatch, Turns, AtMatch, AtOffset, AtWork
<1>3. CASE ~ (end > d.cap - LASTLITERALS)
  <2>1. end <= d.cap
    BY <1>1, <1>3, SMT DEF LASTLITERALS
  <2>2. \A mem : Turns(Matched(d, mem, end), d, d.ip)
    BY <1>1, <2>1, MatchedArrives
  <2> QED
    BY <1>3, <2>2 DEF DictionaryMatch
<1> QED
  BY <1>2, <1>3

LEMMA MatchNearEndTurns ==
  ASSUME NEW d, AtMatch(d), ~ OffsetOutside(d), d.op + 12 <= d.cap, NEW mem, NEW from
  PROVE  Turns(MatchNearEnd(d, mem, from), d, d.ip)
<1> DEFINE end == d.op + Now(d).length
           to == d.op + 8
           limit == d.cap - 7
           written == Greater(end, IF to < limit THEN Reached(to, limit, 8) ELSE to)
<1>1. end \in Nat /\ d.cap \in Nat /\ to \in Nat /\ to <= d.cap /\ limit \in Nat
  BY CodeOf, SMT DEF AtMatch
<1>2. d.whigh \in Nat /\ d.whigh <= d.cap
  BY DEF AtMatch, AtOffset, AtWork, IsDecoder, Inside
<1>3. limit = d.cap - (WILDCOPYLENGTH - 1)
  BY <1>1, SMT DEF WILDCOPYLENGTH
<1>4. CASE end > d.cap - LASTLITERALS
  <2> DEFINE high == Greater(d.whigh, to)
             g == [d EXCEPT !.whigh = high]
  <2>1. MatchNearEnd(d, mem, from) = OutputError(g)
    BY <1>4 DEF MatchNearEnd
  <2>2. high \in Nat /\ high <= d.cap
    BY <1>1, <1>2, GreaterBound
  <2> HIDE DEF high
  <2>3. /\ SameBlock(g, d) /\ g.k = d.k /\ g.ip = d.ip /\ g.op = d.op
        /\ g.rhigh = d.rhigh /\ g.whigh = high /\ g.rlow = d.rlow
    BY DEF AtMatch, AtOffset, AtWork, SameBlock, IsDecoder, DecoderFields
  <2> HIDE DEF g
  <2>4. IsDecoder(g) /\ Inside(g)
    BY <2>2, <2>3 DEF SameBlock, IsDecoder, Inside, AtMatch, AtOffset, AtWork
  <2>5. Ends(OutputError(g), g)
    BY <2>4, ErrorEnds
  <2> QED
    BY <2>1, <2>3, <2>5 DEF Turns, Ends, SameBlock
<1>5. CASE ~ (end > d.cap - LASTLITERALS)
  <2>1. end <= d.cap
    BY <1>1, <1>5, SMT DEF LASTLITERALS
  <2>2. ASSUME to < limit PROVE Reached(to, limit, 8) \in Nat /\ Reached(to, limit, 8) <= limit + 8 - 1
    <3>1. limit > to /\ 8 \in {8, 32}
      BY <1>1, <2>2
    <3> HIDE DEF to, limit
    <3> QED
      BY <1>1, <3>1, WordsReach
  <2> DEFINE reach == IF to < limit THEN Reached(to, limit, 8) ELSE to
  <2>3. reach \in Nat /\ reach <= d.cap
    BY <1>1, <2>2, SMT
  <2> HIDE DEF reach
  <2>4. Greater(end, reach) \in Nat /\ Greater(end, reach) <= d.cap
    BY <1>1, <2>1, <2>3, GreaterBound
  <2>5. written \in Nat /\ written <= d.cap
    BY <2>4 DEF reach
  <2> HIDE DEF written
  <2>6. \A m : Turns(Matched(d, m, written), d, d.ip)
    BY <2>1, <2>5, MatchedArrives
  <2> QED
    BY <1>3, <1>5, <2>6 DEF MatchNearEnd, written
<1> QED
  BY <1>4, <1>5

\* The match of the main loop, twelve bytes or more from the end.
LEMMA SafeMatchTurns ==
  ASSUME NEW d, AtMatch(d), d.op + 12 <= d.cap
  PROVE  Turns(SafeMatch(d), d, d.ip)
<1> DEFINE end == d.op + Now(d).length
           reach == Reached(d.op + 16, end, 8)
<1>1. end \in Nat /\ d.op \in Nat /\ d.op + 16 \in Nat /\ d.cap \in Nat /\ end >= d.op + 4
  BY CodeOf, SMT DEF AtMatch, AtOffset
<1>2. CASE OffsetOutside(d)
  BY <1>2, ErrorEnds DEF SafeMatch, Turns, AtMatch, AtOffset, AtWork
<1>3. CASE ~ OffsetOutside(d) /\ InDictionary(d)
  BY <1>3, DictionaryMatchTurns DEF SafeMatch
<1>4. CASE ~ OffsetOutside(d) /\ ~ InDictionary(d) /\ end > d.cap - MATCH_SAFEGUARD_DISTANCE
  <2>1. \A mem, from : Turns(MatchNearEnd(d, mem, from), d, d.ip)
    BY <1>4, MatchNearEndTurns
  <2> QED
    BY <1>4, <2>1 DEF SafeMatch
<1>5. CASE ~ OffsetOutside(d) /\ ~ InDictionary(d) /\ ~ (end > d.cap - MATCH_SAFEGUARD_DISTANCE)
  <2>1. end + 12 <= d.cap
    BY <1>1, <1>5, SMT DEF MATCH_SAFEGUARD_DISTANCE
  <2>2. end <= d.cap /\ d.op + 16 <= d.cap
    BY <1>1, <2>1, SMT
  <2>3. \A mem : Turns(Matched(d, mem, d.op + 16), d, d.ip)
    BY <1>1, <1>5, <2>2, MatchedArrives
  <2>4. ASSUME Now(d).length > 16 PROVE \A mem : Turns(Matched(d, mem, reach), d, d.ip)
    <3>1. end > d.op + 16
      BY <2>4, CodeOf, SMT DEF AtMatch
    <3>2. reach \in Nat /\ reach <= end + 8 - 1
      BY <1>1, <3>1, WordsReach
    <3> HIDE DEF reach
    <3>3. reach <= d.cap
      BY <1>1, <2>1, <3>2, SMT
    <3> QED
      BY <1>5, <2>2, <3>2, <3>3, MatchedArrives
  <2> QED
    BY <1>5, <2>3, <2>4 DEF SafeMatch
<1> QED
  BY <1>2, <1>3, <1>4, <1>5

\* The match with its length.
LengthSize(d) == LengthBytes(Now(d).length - 4, 15)

\* What the length's bytes leave: the match is next.
LEMMA MatchLength ==
  ASSUME NEW d, AtOffset(d), Decoding(d)
  PROVE  LET v == IF Code(d) < ML_MASK THEN d
                  ELSE read_variable_length(d, Code(d), d.iend - LASTLITERALS + 1, FALSE)
         IN  \/ Ends(v, d) /\ Failed(v)
             \/ /\ Within(v, d) /\ ~ Failed(v) /\ AtOffset(v)
                /\ v.ip = d.ip + LengthSize(d) /\ v.op = d.op
<1> DEFINE g == read_variable_length(d, Code(d), d.iend - LASTLITERALS + 1, FALSE)
           v == IF Code(d) < ML_MASK THEN d ELSE g
           size == LengthBytes(Now(d).length - 4, 15)
<1>1. /\ Code(d) = Now(d).length - 4 /\ Code(d) \in Nat /\ d.op \in Nat /\ d.ip \in Nat /\ d.iend \in Nat
  BY CodeOf
<1>2. Within(d, d)
  BY DEF Within, SameBlock, AtOffset, AtWork, IsDecoder
<1>3. CASE Code(d) < ML_MASK
  <2>1. size = 0
    BY <1>1, <1>3, LengthBytesBound, SMT DEF ML_MASK
  <2>2. d.ip = d.ip + size
    BY <1>1, <2>1, SMT
  <2>3. ~ Failed(d)
    BY DEF Decoding, Failed
  <2> QED
    BY <1>2, <1>3, <2>2, <2>3 DEF LengthSize
<1>4. CASE ~ (Code(d) < ML_MASK)
  <2> DEFINE limit == d.iend - LASTLITERALS + 1
  <2>1. limit \in Int /\ limit < d.iend /\ d.ip < d.iend
    BY <1>1, SMT DEF LASTLITERALS, AtOffset
  <2>2. IsDecoder(d) /\ Inside(d)
    BY DEF AtOffset, AtWork
  <2> HIDE DEF limit
  <2>3. \/ Ends(read_variable_length(d, Code(d), limit, FALSE), d)
           /\ Failed(read_variable_length(d, Code(d), limit, FALSE))
        \/ /\ Within(read_variable_length(d, Code(d), limit, FALSE), d)
           /\ read_variable_length(d, Code(d), limit, FALSE).op = d.op
           /\ read_variable_length(d, Code(d), limit, FALSE).ip = d.ip + LengthBytes(Code(d), 15)
           /\ read_variable_length(d, Code(d), limit, FALSE).ip <= limit
    BY <1>1, <2>1, <2>2, VariableLength
  <2>4. v = read_variable_length(d, Code(d), limit, FALSE)
    BY <1>4 DEF limit
  <2> HIDE DEF v
  <2>5. \/ Ends(v, d) /\ Failed(v)
        \/ Within(v, d) /\ v.op = d.op /\ v.ip = d.ip + size /\ v.ip <= limit
    BY <1>1, <2>3, <2>4
  <2>6. ASSUME Within(v, d), v.op = d.op, v.ip <= limit PROVE AtOffset(v) /\ ~ Failed(v)
    <3>1. v.ip \in Nat /\ v.iend = d.iend /\ v.cap = d.cap /\ Now(v) = Now(d) /\ AtWork(v) /\ ~ Failed(v)
      BY <2>6, WithinAgain DEF AtOffset, Within, IsDecoder
    <3>2. v.ip < v.iend
      BY <1>1, <2>1, <2>6, <3>1, SMT
    <3> QED
      BY <3>1, <3>2 DEF AtOffset
  <2> QED
    BY <2>5, <2>6 DEF v, LengthSize
<1> QED
  BY <1>3, <1>4

LEMMA CopyMatchTurns ==
  ASSUME NEW d, AtMatch(d), Decoding(d), d.op + 12 <= d.cap
  PROVE  Turns(CopyMatch(d), d, d.ip + LengthSize(d))
<1> DEFINE v == IF Code(d) < ML_MASK THEN d
                ELSE read_variable_length(d, Code(d), d.iend - LASTLITERALS + 1, FALSE)
<1>1. \/ Ends(v, d) /\ Failed(v)
      \/ /\ Within(v, d) /\ ~ Failed(v) /\ AtOffset(v)
         /\ v.ip = d.ip + LengthSize(d) /\ v.op = d.op
  BY MatchLength DEF AtMatch
<1>2. CopyMatch(d) = IF Failed(v) THEN v ELSE SafeMatch(v)
  BY DEF CopyMatch, Failed
<1> HIDE DEF v
<1>3. ASSUME Within(v, d), AtOffset(v), v.ip = d.ip + LengthSize(d), v.op = d.op
      PROVE  Turns(SafeMatch(v), d, d.ip + LengthSize(d))
  <2>1. v.cap = d.cap /\ Now(v) = Now(d)
    BY <1>3, WithinAgain
  <2>2. AtMatch(v)
    BY <1>3, <2>1 DEF AtMatch, RoomBehind, Within
  <2>3. Turns(SafeMatch(v), v, v.ip)
    BY <1>3, <2>1, <2>2, SafeMatchTurns
  <2> QED
    BY <1>3, <2>3, WithinAgain
<1> QED
  BY <1>1, <1>2, <1>3 DEF Turns

-----------------------------------------------------------------------------
(* Turns.                                                                    *)

\* Literals, copied in bytes bytes, and the offset behind them.
LEMMA LiteralsThenOffset ==
  ASSUME NEW d, AtWork(d), Decoding(d), Now(d).length >= 4,
         NEW bytes \in Nat, d.ip + bytes <= d.iend, d.op + bytes <= d.cap,
         d.ip + Now(d).lit + 2 < d.iend
  PROVE  LET w == Offset(Literals(d, bytes))
         IN  /\ Within(w, d) /\ AtOffset(w) /\ Decoding(w)
             /\ w.ip = d.ip + Now(d).lit + 2 /\ w.op = d.op + Now(d).lit
             /\ LengthSize(w) = LengthSize(d) /\ w.cap = d.cap
<1> DEFINE u == Literals(d, bytes)
           w == Offset(u)
<1>1. Within(u, d) /\ u.ip = d.ip + Now(d).lit /\ u.op = d.op + Now(d).lit
  BY LiteralsWithin
<1> HIDE DEF u
<1>2. IsDecoder(u) /\ Inside(u) /\ u.iend = d.iend /\ u.ip \in Nat /\ u.iend \in Nat
  BY <1>1 DEF Within, SameBlock, IsDecoder
<1>3. u.ip + 2 < u.iend /\ u.ip + 2 <= u.iend
  BY <1>1, <1>2
<1>4. Within(w, u) /\ w.ip = u.ip + 2 /\ w.op = u.op
  BY <1>2, <1>3, ReadToWithin DEF Offset
<1> HIDE DEF w
<1>5. Within(w, d)
  BY <1>1, <1>4, WithinAgain
<1>6. Now(w) = Now(d) /\ AtWork(w) /\ Decoding(w) /\ w.iend = d.iend /\ w.cap = d.cap
  BY <1>5, WithinAgain
<1>7. AtOffset(w)
  BY <1>2, <1>3, <1>4, <1>6 DEF AtOffset
<1> QED
  BY <1>1, <1>4, <1>5, <1>6, <1>7 DEF u, w, LengthSize

\* A decoder behind a token and the literals' length.  Only the last sequence has
\* no match, and its literals reach the end of what there is.
AtLiterals(d) ==
  /\ AtWork(d) /\ Decoding(d) /\ d.op <= d.cap
  /\ Now(d).length >= 4 \/ d.ip + Now(d).lit >= d.iend

LEMMA SafeLiteralsTurns ==
  ASSUME NEW d, AtLiterals(d), ~ d.fast
  PROVE  Turns(SafeLiterals(d), d, d.ip + Now(d).lit + 2 + LengthSize(d))
<1> DEFINE lit == Now(d).lit
<1>1. /\ d.ip \in Nat /\ d.iend \in Nat /\ d.op \in Nat /\ d.cap \in Nat /\ lit \in Nat
      /\ IsDecoder(d) /\ Inside(d)
  BY DEF AtLiterals, AtWork, IsDecoder, IsSequence
<1>2. CASE NearAnEnd(d) /\ EndsBlock(d)
  <2> DEFINE u == Literals(d, lit)
  <2>1. d.ip + lit <= d.iend /\ d.op + lit <= d.cap
    BY <1>1, <1>2, SMT DEF EndsBlock
  <2>2. Within(u, d)
    BY <1>1, <2>1, LiteralsWithin DEF AtLiterals
  <2> HIDE DEF u
  <2>3. SameBlock(u, d) /\ IsDecoder(u) /\ Inside(u) /\ "done" # "decoding"
    BY <2>2 DEF Within
  <2>4. Ends([u EXCEPT !.status = "done"], d)
    BY <2>3, StatusEnds
  <2> QED
    BY <1>2, <2>4 DEF SafeLiterals, Turns, u
<1>3. CASE NearAnEnd(d) /\ ~ EndsBlock(d)
  BY <1>1, <1>3, ErrorEnds DEF SafeLiterals, Turns
<1>4. CASE ~ NearAnEnd(d)
  <2> DEFINE w == Offset(Literals(d, Copied8(lit)))
  <2>1. d.op + lit <= d.cap - 12 /\ d.ip + lit <= d.iend - 8
    BY <1>1, <1>4, SMT DEF NearAnEnd, MFLIMIT, LASTLITERALS
  <2>2. Now(d).length >= 4
    BY <1>1, <2>1, SMT DEF AtLiterals
  <2>3. Copied8(lit) \in Nat /\ (lit = 0 => Copied8(lit) = 8) /\ (lit > 0 => Copied8(lit) <= lit + 7)
    BY <1>1, CopiedBound
  <2>4. d.ip + Copied8(lit) <= d.iend /\ d.op + Copied8(lit) <= d.cap /\ d.ip + lit + 2 < d.iend
    BY <1>1, <2>1, <2>3, SMT
  <2>5. /\ Within(w, d) /\ AtOffset(w) /\ Decoding(w)
        /\ w.ip = d.ip + lit + 2 /\ w.op = d.op + lit
        /\ LengthSize(w) = LengthSize(d) /\ w.cap = d.cap
    BY <2>2, <2>3, <2>4, LiteralsThenOffset DEF AtLiterals
  <2>6. SafeLiterals(d) = CopyMatch(w)
    BY <1>4 DEF SafeLiterals
  <2> HIDE DEF w
  <2>7. AtMatch(w) /\ w.op + 12 <= w.cap
    <3>1. ~ w.fast
      BY <2>5 DEF Within
    <3> QED
      BY <1>1, <2>1, <2>5, <3>1 DEF AtMatch, RoomBehind
  <2>8. Turns(CopyMatch(w), w, w.ip + LengthSize(w))
    BY <2>5, <2>7, CopyMatchTurns
  <2> QED
    BY <2>5, <2>6, <2>8, WithinAgain
<1> QED
  BY <1>2, <1>3, <1>4

LEMMA FastCopyTurns ==
  ASSUME NEW d, AtMatch(d), ~ MatchLeavesLoop(d)
  PROVE  Turns(FastCopy(d), d, d.ip)
<1> DEFINE end == d.op + Now(d).length
           short == UsingOffsetReaches(d.op, end, Now(d).offset)
           far == Reached(d.op, end, 32)
<1>1. /\ end \in Nat /\ d.op \in Nat /\ d.cap \in Nat /\ end >= d.op + 4 /\ end < d.cap - 64 /\ end <= d.cap
      /\ d.op + 8 \in Nat
  BY CodeOf, SMT DEF AtMatch, AtOffset, MatchLeavesLoop, FASTLOOP_SAFE_DISTANCE
<1> HIDE DEF end
<1>2. Reached(d.op, end, 8) \in Nat /\ Reached(d.op, end, 8) <= end + 8 - 1
  <2>1. end > d.op /\ 8 \in {8, 32}
    BY <1>1, SMT
  <2> QED
    BY <1>1, <2>1, WordsReach
<1>3. far \in Nat /\ far <= end + 32 - 1
  <2>1. end > d.op /\ 32 \in {8, 32}
    BY <1>1, SMT
  <2> QED
    BY <1>1, <2>1, WordsReach
<1>4. Reached(d.op + 8, end, 8) \in Nat /\ Reached(d.op + 8, end, 8) <= end + 12
  <2> DEFINE to == d.op + 8
             reach == Reached(to, end, 8)
  <2>1. /\ reach \in Nat
        /\ end <= to => reach = to + 8
        /\ end > to => reach <= end + 8 - 1
    BY <1>1, WordsReach
  <2> HIDE DEF reach
  <2>2. reach <= end + 12
    BY <1>1, <2>1, SMT
  <2> QED
    BY <2>1, <2>2 DEF reach
<1>5. short \in Nat /\ short <= d.cap
  <2>1. CASE Now(d).offset \in {1, 2, 4}
    BY <1>1, <1>2, <2>1, SMT DEF UsingOffsetReaches
  <2>2. CASE Now(d).offset \notin {1, 2, 4}
    BY <1>1, <1>4, <2>2, SMT DEF UsingOffsetReaches
  <2> QED
    BY <2>1, <2>2
<1>6. far <= d.cap
  BY <1>1, <1>3, SMT
<1> HIDE DEF short, far
<1>7. CASE OffsetOutside(d)
  BY <1>7, ErrorEnds DEF FastCopy, Turns, AtMatch, AtOffset, AtWork
<1>8. CASE ~ OffsetOutside(d) /\ InDictionary(d)
  BY <1>8, DictionaryMatchTurns DEF FastCopy
<1>9. CASE ~ OffsetOutside(d) /\ ~ InDictionary(d)
  <2>1. d.op + Now(d).length <= d.cap
    BY <1>1 DEF end
  <2>2. \A mem : Turns(Matched(d, mem, short), d, d.ip) /\ Turns(Matched(d, mem, far), d, d.ip)
    BY <1>3, <1>5, <1>6, <1>9, <2>1, MatchedArrives
  <2> QED
    BY <1>9, <2>2 DEF FastCopy, end, short, far
<1> QED
  BY <1>7, <1>8, <1>9

LEMMA FastMatchTurns ==
  ASSUME NEW d, AtOffset(d), Decoding(d), d.op + 12 <= d.cap
  PROVE  Turns(FastMatch(d), d, d.ip + LengthSize(d))
<1> DEFINE v == IF Code(d) < ML_MASK THEN d
                ELSE read_variable_length(d, Code(d), d.iend - LASTLITERALS + 1, FALSE)
           outside == Code(d) >= ML_MASK /\ OffsetOutside(d)
<1>1. \/ Ends(v, d) /\ Failed(v)
      \/ /\ Within(v, d) /\ ~ Failed(v) /\ AtOffset(v)
         /\ v.ip = d.ip + LengthSize(d) /\ v.op = d.op
  BY MatchLength
<1>2. FastMatch(d) = IF Failed(v) \/ outside THEN OutputError(v)
                     ELSE IF MatchLeavesLoop(v) THEN SafeMatch(SafeLoop(v))
                     ELSE IF IsShort(v) THEN Match18(v) ELSE FastCopy(v)
  BY DEF FastMatch, Failed
<1> HIDE DEF v, outside
<1>3. SameBlock(v, d) /\ IsDecoder(v) /\ Inside(v)
  BY <1>1 DEF Ends, Within
<1>4. CASE Failed(v) \/ outside
  <2>1. "error" # "decoding"
    OBVIOUS
  <2>2. Ends(OutputError(v), d)
    BY <1>3, <2>1, StatusEnds DEF OutputError
  <2> QED
    BY <1>2, <1>4, <2>2 DEF Turns
<1>5. CASE ~ (Failed(v) \/ outside)
  <2>1. Within(v, d) /\ AtOffset(v) /\ v.ip = d.ip + LengthSize(d) /\ v.op = d.op
    BY <1>1, <1>5
  <2>2. v.cap = d.cap /\ v.op + 12 <= v.cap
    BY <2>1 DEF Within, SameBlock
  <2>3. CASE MatchLeavesLoop(v)
    <3> DEFINE x == SafeLoop(v)
    <3>1. Within(x, v) /\ x.ip = v.ip /\ x.op = v.op /\ ~ x.fast
      BY <1>3, SafeLoopWithin
    <3> HIDE DEF x
    <3>2. AtMatch(x)
      <4>1. AtWork(x) /\ Now(x) = Now(v) /\ x.iend = v.iend
        BY <2>1, <3>1, WithinAgain DEF AtOffset
      <4> QED
        BY <2>1, <3>1, <4>1 DEF AtMatch, AtOffset, RoomBehind
    <3>3. x.op + 12 <= x.cap
      BY <2>2, <3>1 DEF Within, SameBlock
    <3>4. Turns(SafeMatch(x), x, x.ip)
      BY <3>2, <3>3, SafeMatchTurns
    <3>5. Turns(SafeMatch(x), v, v.ip)
      BY <3>1, <3>4, WithinAgain
    <3>6. Turns(SafeMatch(x), d, v.ip)
      BY <2>1, <3>5, WithinAgain
    <3> QED
      BY <1>2, <1>5, <2>1, <2>3, <3>6 DEF x
  <2>4. CASE ~ MatchLeavesLoop(v)
    <3>1. AtMatch(v)
      BY <2>1, <2>4, CodeOf, SMT DEF AtMatch, RoomBehind, MatchLeavesLoop, FASTLOOP_SAFE_DISTANCE
    <3>2. v.op + 18 <= v.cap
      BY <2>1, <2>4, CodeOf, SMT DEF AtOffset, MatchLeavesLoop, FASTLOOP_SAFE_DISTANCE
    <3>3. IsShort(v) => Turns(Match18(v), v, v.ip)
      BY <3>1, <3>2, Match18Turns
    <3>4. Turns(FastCopy(v), v, v.ip)
      BY <2>4, <3>1, FastCopyTurns
    <3>5. Turns(FastMatch(d), v, v.ip)
      BY <1>2, <1>5, <2>4, <3>3, <3>4
    <3> QED
      BY <2>1, <3>5, WithinAgain
  <2> QED
    BY <2>3, <2>4
<1> QED
  BY <1>4, <1>5

\* A decoder before a token.
AtToken(d) ==
  /\ AtWork(d) /\ Decoding(d) /\ d.ip < d.iend /\ d.op <= d.cap
  /\ Now(d).length >= 4 \/ d.ip + 1 + LengthBytes(Now(d).lit, 15) + Now(d).lit >= d.iend

\* The sequence, when it has a match.
Size(d) == 1 + LengthBytes(Now(d).lit, 15) + Now(d).lit + 2 + LengthSize(d)

LEMMA SizeParts ==
  ASSUME NEW d, AtWork(d)
  PROVE  Now(d).lit \in Nat /\ LengthBytes(Now(d).lit, 15) \in Nat /\ LengthSize(d) \in Nat
<1>1. Now(d).lit \in Nat /\ LengthBytes(Now(d).lit, 15) \in Nat
  BY LengthBytesBound DEF AtWork, IsSequence
<1>2. CASE Now(d).length = 0
  BY <1>1, <1>2, SMT DEF LengthSize, LengthBytes
<1>3. CASE Now(d).length >= 4
  <2>1. Now(d).length - 4 \in Nat
    BY <1>3 DEF AtWork, IsSequence
  <2> QED
    BY <1>1, <2>1, LengthBytesBound DEF LengthSize
<1> QED
  BY <1>2, <1>3 DEF AtWork, IsSequence

\* The literals' length, in both loops.
LiteralsLength(d) ==
  IF Now(Token(d)).lit < RUN_MASK THEN Token(d)
  ELSE read_variable_length(Token(d), Now(Token(d)).lit, Token(d).iend - RUN_MASK, TRUE)

LEMMA TokenRead ==
  ASSUME NEW d, AtToken(d)
  PROVE  /\ Within(Token(d), d) /\ Token(d).ip = d.ip + 1 /\ Token(d).op = d.op
         /\ d.ip + 1 <= d.iend
<1>1. IsDecoder(d) /\ Inside(d) /\ d.ip + 1 <= d.iend
  BY DEF AtToken, AtWork, IsDecoder
<1> QED
  BY <1>1, ReadToWithin DEF Token

LEMMA LiteralsLengthRead ==
  ASSUME NEW d, AtToken(d)
  PROVE  LET v == LiteralsLength(d)
         IN  \/ Ends(v, d) /\ Failed(v)
             \/ /\ Within(v, d) /\ ~ Failed(v) /\ AtLiterals(v) /\ v.op = d.op
                /\ v.ip = d.ip + 1 + LengthBytes(Now(d).lit, 15)
<1> DEFINE t == Token(d)
           v == LiteralsLength(d)
           lit == Now(d).lit
           bytes == LengthBytes(lit, 15)
<1>1. Within(t, d) /\ t.ip = d.ip + 1 /\ t.op = d.op
  BY TokenRead
<1>2. Now(t) = Now(d) /\ AtWork(t) /\ Decoding(t) /\ ~ Failed(t) /\ t.iend = d.iend /\ t.cap = d.cap
  BY <1>1, WithinAgain DEF AtToken
<1>3. /\ lit \in Nat /\ d.ip \in Nat /\ d.iend \in Nat /\ d.op \in Nat /\ d.cap \in Nat
      /\ bytes \in Nat /\ (lit < 15 => bytes = 0)
  <2>1. lit \in Nat /\ d.ip \in Nat /\ d.iend \in Nat /\ d.op \in Nat /\ d.cap \in Nat
    BY DEF AtToken, AtWork, IsSequence, IsDecoder
  <2> QED
    BY <2>1, LengthBytesBound
<1>4. v = IF lit < 15 THEN t ELSE read_variable_length(t, lit, t.iend - 15, TRUE)
  BY <1>2 DEF LiteralsLength, RUN_MASK
<1> HIDE DEF t, v, bytes
<1>5. ASSUME Within(v, d), v.op = d.op, v.ip = d.ip + 1 + bytes PROVE AtLiterals(v) /\ ~ Failed(v)
  <2>1. Now(v) = Now(d) /\ AtWork(v) /\ Decoding(v) /\ ~ Failed(v) /\ v.iend = d.iend /\ v.cap = d.cap
    BY <1>5, WithinAgain DEF AtToken
  <2> QED
    BY <1>5, <2>1 DEF AtLiterals, AtToken, bytes
<1>6. CASE lit < 15
  <2>1. v = t /\ v.ip = d.ip + 1 + bytes
    BY <1>1, <1>3, <1>4, <1>6, SMT
  <2> QED
    BY <1>1, <1>5, <2>1 DEF v, bytes
<1>7. CASE ~ (lit < 15)
  <2> DEFINE limit == t.iend - 15
  <2>1. v = read_variable_length(t, lit, limit, TRUE)
    BY <1>4, <1>7
  <2>2. limit \in Int /\ limit < t.iend /\ IsDecoder(t) /\ Inside(t) /\ TRUE \in BOOLEAN
    BY <1>2, <1>3 DEF AtWork
  <2> HIDE DEF limit
  <2>3. \/ Ends(v, t) /\ Failed(v)
        \/ Within(v, t) /\ v.op = t.op /\ v.ip = t.ip + bytes
    BY <1>3, <2>1, <2>2, VariableLength DEF bytes
  <2>4. Ends(v, t) => Ends(v, d)
    BY <1>1 DEF Within, Ends, SameBlock
  <2>5. Within(v, t) => Within(v, d)
    BY <1>1, WithinAgain
  <2> QED
    BY <1>1, <1>5, <2>3, <2>4, <2>5 DEF v, bytes
<1> QED
  BY <1>6, <1>7

\* A decoder that goes on behind the literals' length, out of the fast loop.
LEMMA SafeLiteralsAfterLength ==
  ASSUME NEW d, AtToken(d), NEW v, Within(v, d), AtLiterals(v), ~ v.fast,
         v.ip = d.ip + 1 + LengthBytes(Now(d).lit, 15)
  PROVE  Turns(SafeLiterals(v), d, d.ip + Size(d))
<1> DEFINE lit == Now(d).lit
           bytes == LengthBytes(lit, 15)
           match == LengthSize(d)
<1>1. Now(v) = Now(d) /\ LengthSize(v) = LengthSize(d)
  BY WithinAgain DEF LengthSize
<1>2. Turns(SafeLiterals(v), d, v.ip + Now(v).lit + 2 + LengthSize(v))
  BY SafeLiteralsTurns, WithinAgain
<1>3. Turns(SafeLiterals(v), d, v.ip + lit + 2 + match)
  BY <1>1, <1>2
<1>4. d.ip + Size(d) = d.ip + (1 + bytes + lit + 2 + match)
  BY DEF Size
<1>5. bytes \in Nat /\ lit \in Nat /\ match \in Nat /\ d.ip \in Nat
  BY SizeParts DEF AtToken, AtWork, IsDecoder
<1> HIDE DEF bytes, lit, match
<1>6. v.ip + lit + 2 + match = d.ip + Size(d)
  BY <1>4, <1>5, SMT DEF bytes, lit
<1> QED
  BY <1>3, <1>6

\* A turn of the main loop ends the block, or an attempt at it, or reaches the
\* next token.
LEMMA SafeSequenceTurns ==
  ASSUME NEW d, AtToken(d), ~ d.fast
  PROVE  Turns(SafeSequence(d), d, d.ip + Size(d))
<1> DEFINE t == Token(d)
           v == LiteralsLength(d)
           u == Offset(Literals(t, 16))
           lit == Now(d).lit
           shortcut == lit < 15 /\ t.ip < t.iend - 16 /\ t.op <= t.cap - 32
<1>1. Within(t, d) /\ t.ip = d.ip + 1 /\ t.op = d.op
  BY TokenRead
<1>2. /\ Now(t) = Now(d) /\ AtWork(t) /\ Decoding(t) /\ t.iend = d.iend /\ t.cap = d.cap /\ ~ t.fast
  BY <1>1, WithinAgain DEF AtToken
<1>3. /\ d.ip \in Nat /\ d.iend \in Nat /\ d.op \in Nat /\ d.cap \in Nat
      /\ lit \in Nat /\ LengthBytes(lit, 15) \in Nat /\ LengthSize(d) \in Nat
      /\ lit < 15 => LengthBytes(lit, 15) = 0
  BY SizeParts, LengthBytesBound DEF AtToken, AtWork, IsDecoder
<1>4. SafeSequence(d) = IF shortcut THEN IF IsShort(u) THEN Match18(u) ELSE CopyMatch(u)
                        ELSE IF Failed(v) THEN v ELSE SafeLiterals(v)
  BY <1>2 DEF SafeSequence, LiteralsLength, Failed, RUN_MASK
<1>5. CASE shortcut
  <2>1. LengthBytes(lit, 15) = 0 /\ lit <= 14 /\ d.ip + 17 < d.iend /\ d.op + 32 <= d.cap
    BY <1>1, <1>2, <1>3, <1>5, SMT
  <2>2. Now(d).length >= 4
    BY <1>3, <2>1, SMT DEF AtToken
  <2>3. 16 \in Nat /\ t.ip + 16 <= t.iend /\ t.op + 16 <= t.cap /\ t.ip + lit + 2 < t.iend
    BY <1>1, <1>2, <1>3, <2>1, SMT
  <2>4. /\ Within(u, t) /\ AtOffset(u) /\ Decoding(u)
        /\ u.ip = t.ip + lit + 2 /\ u.op = t.op + lit
        /\ LengthSize(u) = LengthSize(t) /\ u.cap = t.cap
    BY <1>2, <2>2, <2>3, LiteralsThenOffset
  <2> HIDE DEF u, t
  <2>5. LengthSize(t) = LengthSize(d)
    BY <1>2 DEF LengthSize
  <2>6. AtMatch(u)
    <3>1. ~ u.fast
      BY <1>2, <2>4 DEF Within
    <3> QED
      BY <2>4, <3>1 DEF AtMatch, RoomBehind
  <2>7. u.op + 18 <= u.cap /\ u.op + 12 <= u.cap
    BY <1>1, <1>2, <1>3, <2>1, <2>4, SMT
  <2>8. u.ip + LengthSize(u) = d.ip + Size(d)
    BY <1>1, <1>3, <2>1, <2>4, <2>5, SMT DEF Size
  <2>9. CASE IsShort(u)
    <3>1. LengthSize(u) = 0
      BY <2>4, <2>9, CodeOf, LengthBytesBound DEF LengthSize, IsShort, ML_MASK
    <3>2. u.ip = d.ip + Size(d)
      BY <2>4, <2>8, <3>1, CodeOf
    <3>3. Turns(Match18(u), u, u.ip)
      BY <2>6, <2>7, <2>9, Match18Turns
    <3>4. Turns(Match18(u), d, u.ip)
      BY <1>1, <2>4, <3>3, WithinAgain
    <3> QED
      BY <1>4, <1>5, <2>9, <3>2, <3>4
  <2>10. CASE ~ IsShort(u)
    <3>1. Turns(CopyMatch(u), u, u.ip + LengthSize(u))
      BY <2>4, <2>6, <2>7, CopyMatchTurns
    <3>2. Turns(CopyMatch(u), d, u.ip + LengthSize(u))
      BY <1>1, <2>4, <3>1, WithinAgain
    <3> QED
      BY <1>4, <1>5, <2>8, <2>10, <3>2
  <2> QED
    BY <2>9, <2>10
<1>6. CASE ~ shortcut
  <2>1. \/ Ends(v, d) /\ Failed(v)
        \/ /\ Within(v, d) /\ ~ Failed(v) /\ AtLiterals(v)
           /\ v.ip = d.ip + 1 + LengthBytes(lit, 15)
    BY LiteralsLengthRead
  <2>2. SafeSequence(d) = IF Failed(v) THEN v ELSE SafeLiterals(v)
    BY <1>4, <1>6
  <2> HIDE DEF v
  <2>3. CASE Ends(v, d) /\ Failed(v)
    BY <2>2, <2>3 DEF Turns
  <2>4. CASE /\ Within(v, d) /\ ~ Failed(v) /\ AtLiterals(v)
             /\ v.ip = d.ip + 1 + LengthBytes(lit, 15)
    <3>1. ~ v.fast
      BY <2>4 DEF Within
    <3> QED
      BY <2>2, <2>4, <3>1, SafeLiteralsAfterLength
  <2> QED
    BY <2>1, <2>3, <2>4
<1> QED
  BY <1>5, <1>6

\* And so does a turn of the fast loop.
LEMMA FastSequenceTurns ==
  ASSUME NEW d, AtToken(d), d.op + 64 <= d.cap
  PROVE  Turns(FastSequence(d), d, d.ip + Size(d))
<1> DEFINE t == Token(d)
           v == LiteralsLength(d)
           lit == Now(d).lit
           bytes == LengthBytes(lit, 15)
           leave == IF lit < 15 THEN v.ip > v.iend - 17
                    ELSE v.op + lit > v.cap - 32 \/ v.ip + lit > v.iend - 32
           copied == IF lit < 15 THEN 16 ELSE Reached(0, lit, 32)
           u == Offset(Literals(v, copied))
<1>1. \/ Ends(v, d) /\ Failed(v)
      \/ /\ Within(v, d) /\ ~ Failed(v) /\ AtLiterals(v) /\ v.op = d.op
         /\ v.ip = d.ip + 1 + bytes
  BY LiteralsLengthRead
<1>2. Now(t) = Now(d)
  BY TokenRead, WithinAgain
<1>3. FastSequence(d) =
        LET leaves == IF lit < 15 THEN v.ip > v.iend - 17
                      ELSE v.op + Now(v).lit > v.cap - 32 \/ v.ip + Now(v).lit > v.iend - 32
        IN  IF Failed(v) THEN v
            ELSE IF leaves THEN SafeLiterals(SafeLoop(v))
            ELSE FastMatch(Offset(Literals(v, IF lit < 15 THEN 16 ELSE Reached(0, Now(v).lit, 32))))
  BY <1>2 DEF FastSequence, LiteralsLength, Failed, RUN_MASK
<1> HIDE DEF v
<1>4. CASE Ends(v, d) /\ Failed(v)
  BY <1>3, <1>4 DEF Turns
<1>5. CASE /\ Within(v, d) /\ ~ Failed(v) /\ AtLiterals(v) /\ v.op = d.op
           /\ v.ip = d.ip + 1 + bytes
  <2>1. Now(v) = Now(d) /\ v.iend = d.iend /\ v.cap = d.cap /\ LengthSize(v) = LengthSize(d)
    BY <1>5, WithinAgain DEF LengthSize
  <2>2. FastSequence(d) = IF leave THEN SafeLiterals(SafeLoop(v)) ELSE FastMatch(u)
    BY <1>3, <1>5, <2>1
  <2>3. IsDecoder(v) /\ Inside(v) /\ AtWork(v) /\ Decoding(v)
    BY <1>5 DEF AtLiterals, AtWork
  <2>4. CASE leave
    <3> DEFINE x == SafeLoop(v)
    <3>1. Within(x, v) /\ x.ip = v.ip /\ x.op = v.op /\ ~ x.fast
      BY <2>3, SafeLoopWithin
    <3> HIDE DEF x
    <3>2. Now(x) = Now(v) /\ AtWork(x) /\ Decoding(x) /\ x.iend = v.iend /\ x.cap = v.cap /\ Within(x, d)
      BY <1>5, <2>3, <3>1, WithinAgain
    <3>3. AtLiterals(x)
      BY <1>5, <3>1, <3>2 DEF AtLiterals
    <3>4. Turns(SafeLiterals(x), d, d.ip + Size(d))
      BY <1>5, <3>1, <3>2, <3>3, SafeLiteralsAfterLength
    <3> QED
      BY <2>2, <2>4, <3>4 DEF x
  <2>5. CASE ~ leave
    <3>1. /\ d.ip \in Nat /\ d.iend \in Nat /\ d.op \in Nat /\ d.cap \in Nat
          /\ lit \in Nat /\ bytes \in Nat /\ LengthSize(d) \in Nat
      BY SizeParts DEF AtToken, AtWork, IsDecoder
    <3>2. /\ copied \in Nat
          /\ v.ip + copied <= v.iend /\ v.op + copied <= v.cap
          /\ v.ip + lit + 2 < v.iend /\ v.op + lit + 12 <= v.cap
      <4>1. CASE lit < 15
        BY <1>5, <2>1, <2>5, <3>1, <4>1, SMT
      <4>2. CASE ~ (lit < 15)
        <5>1. /\ v.op + lit + 32 <= v.cap /\ v.ip + lit + 32 <= v.iend /\ lit > 0
              /\ v.op \in Nat /\ v.ip \in Nat /\ v.cap \in Nat /\ v.iend \in Nat
          BY <1>5, <2>1, <2>5, <3>1, <4>2, SMT
        <5>2. Reached(0, lit, 32) \in Nat /\ Reached(0, lit, 32) <= lit + 32 - 1
          <6>1. 0 \in Nat /\ 32 \in {8, 32}
            OBVIOUS
          <6> QED
            BY <3>1, <5>1, <6>1, WordsReach
        <5>3. copied = Reached(0, lit, 32)
          BY <4>2
        <5> HIDE DEF copied
        <5> QED
          BY <3>1, <5>1, <5>2, <5>3, SMT
      <4> QED
        BY <4>1, <4>2
    <3>3. Now(v).length >= 4
      BY <1>5, <2>1, <3>1, <3>2, SMT DEF AtLiterals
    <3> HIDE DEF copied
    <3>4. /\ Within(u, v) /\ AtOffset(u) /\ Decoding(u)
          /\ u.ip = v.ip + lit + 2 /\ u.op = v.op + lit
          /\ LengthSize(u) = LengthSize(v) /\ u.cap = v.cap
      BY <2>1, <2>3, <3>2, <3>3, LiteralsThenOffset
    <3> HIDE DEF u
    <3>5. u.op + 12 <= u.cap
      BY <3>2, <3>4
    <3>6. Turns(FastMatch(u), u, u.ip + LengthSize(u))
      BY <3>4, <3>5, FastMatchTurns
    <3>7. Turns(FastMatch(u), d, u.ip + LengthSize(u))
      BY <1>5, <3>4, <3>6, WithinAgain
    <3>8. u.ip + LengthSize(u) = d.ip + Size(d)
      BY <1>5, <2>1, <3>1, <3>4, SMT DEF Size
    <3> QED
      BY <2>2, <2>5, <3>7, <3>8
  <2> QED
    BY <2>4, <2>5
<1> QED
  BY <1>1, <1>4, <1>5

-----------------------------------------------------------------------------
(* How sequences lie in a block: one behind the other, to its end.           *)

PlacedSequence == [token : Nat, at : Nat, lit : Nat, offset : Nat, length : Nat]

Place(seqs, end, i) == IF i <= Len(seqs) THEN seqs[i].token ELSE end

Row(seqs, end) ==
  /\ seqs \in Seq(PlacedSequence)
  /\ Place(seqs, end, 1) = 0
  /\ \A i \in 1 .. Len(seqs) :
       /\ Place(seqs, end, i + 1) = seqs[i].token + SequenceSize(seqs[i])
       /\ seqs[i].length = 0 \/ seqs[i].length >= 4

HaveMatches(seqs, n) == \A i \in 1 .. n : seqs[i].length >= 4

LEMMA RowGrows ==
  ASSUME NEW seqs, NEW end \in Nat, Row(seqs, end),
         NEW s \in PlacedSequence, s.token = end, s.length = 0 \/ s.length >= 4
  PROVE  LET longer == Append(seqs, s)
         IN  /\ Row(longer, end + SequenceSize(s)) /\ Len(longer) = Len(seqs) + 1
             /\ \A n \in Nat : n <= Len(seqs) /\ HaveMatches(seqs, n) => HaveMatches(longer, n)
             /\ HaveMatches(seqs, Len(seqs)) /\ s.length >= 4 => HaveMatches(longer, Len(longer))
<1> DEFINE longer == Append(seqs, s)
           far == end + SequenceSize(s)
<1>1. /\ longer \in Seq(PlacedSequence) /\ Len(longer) = Len(seqs) + 1 /\ Len(seqs) \in Nat
      /\ \A i \in 1 .. Len(seqs) : longer[i] = seqs[i]
      /\ longer[Len(seqs) + 1] = s
  BY DEF Row
<1> HIDE DEF longer, far
<1>2. Place(longer, far, 1) = 0
  <2>1. CASE Len(seqs) = 0
    BY <1>1, <2>1 DEF Place, Row
  <2>2. CASE Len(seqs) > 0
    BY <1>1, <2>2 DEF Place, Row
  <2> QED
    BY <1>1, <2>1, <2>2
<1>3. ASSUME NEW i \in 1 .. Len(longer)
      PROVE  /\ Place(longer, far, i + 1) = longer[i].token + SequenceSize(longer[i])
             /\ longer[i].length = 0 \/ longer[i].length >= 4
  <2>1. CASE i < Len(seqs)
    <3>1. i \in 1 .. Len(seqs) /\ i + 1 \in 1 .. Len(seqs) /\ i + 1 <= Len(longer)
      BY <1>1, <2>1
    <3>2. Place(longer, far, i + 1) = Place(seqs, end, i + 1) /\ longer[i] = seqs[i]
      BY <1>1, <3>1 DEF Place
    <3> QED
      BY <3>1, <3>2 DEF Row
  <2>2. CASE i = Len(seqs)
    <3>1. i \in 1 .. Len(seqs) /\ i + 1 = Len(longer) /\ ~ (i + 1 <= Len(seqs))
      BY <1>1, <2>2
    <3>2. Place(longer, far, i + 1) = end /\ Place(seqs, end, i + 1) = end /\ longer[i] = seqs[i]
      BY <1>1, <2>2, <3>1 DEF Place
    <3> QED
      BY <3>1, <3>2 DEF Row
  <2>3. CASE i = Len(seqs) + 1
    <3>1. Place(longer, far, i + 1) = far /\ longer[i] = s
      BY <1>1, <2>3 DEF Place
    <3> QED
      BY <3>1 DEF far
  <2> QED
    BY <1>1, <2>1, <2>2, <2>3
<1>4. Row(longer, far)
  BY <1>1, <1>2, <1>3 DEF Row
<1>5. ASSUME NEW n \in Nat, n <= Len(seqs), HaveMatches(seqs, n) PROVE HaveMatches(longer, n)
  BY <1>1, <1>5 DEF HaveMatches
<1>6. ASSUME HaveMatches(seqs, Len(seqs)), s.length >= 4 PROVE HaveMatches(longer, Len(longer))
  BY <1>1, <1>6 DEF HaveMatches
<1> QED
  BY <1>1, <1>4, <1>5, <1>6 DEF longer, far

LEMMA SequenceSizes ==
  ASSUME NEW s, s.lit \in Nat, s.length \in Nat
  PROVE  /\ s.length = 0 => SequenceSize(s) = 1 + LengthBytes(s.lit, 15) + s.lit
         /\ s.length >= 4 => SequenceSize(s) = 1 + LengthBytes(s.lit, 15) + s.lit + 2 + LengthBytes(s.length - 4, 15)
         /\ s.length = 0 \/ s.length >= 4 => SequenceSize(s) \in Nat
<1>1. LengthBytes(s.lit, 15) \in Nat /\ (s.length >= 4 => LengthBytes(s.length - 4, 15) \in Nat)
  <2>1. s.length >= 4 => s.length - 4 \in Nat
    OBVIOUS
  <2> QED
    BY <2>1, LengthBytesBound
<1> QED
  BY <1>1, SMT DEF SequenceSize, RUN_MASK, ML_MASK, MINMATCH

-----------------------------------------------------------------------------
(* The compressor lays its sequences out in this way.                        *)

GaveUp(e) == e.status = "failed"

EncoderLaid(e) ==
  /\ e.dict \in Nat
  /\ ~ GaveUp(e) => Row(e.seqs, e.op)
  /\ Goes(e) => HaveMatches(e.seqs, Len(e.seqs))
  /\ ~ Goes(e) /\ ~ GaveUp(e) => Len(e.seqs) \in Nat \ {0} /\ HaveMatches(e.seqs, Len(e.seqs) - 1)

LEMMA EncodeSequenceLaid ==
  ASSUME NEW e, EncoderSound(e), EncoderLaid(e), Goes(e), NEW s, IsMatch(s), MatchAllowed(e, s),
         NEW direct \in BOOLEAN
  PROVE  EncoderLaid(EncodeSequence(e, s, direct))
<1> DEFINE f == EncodeSequence(e, s, direct)
           p == Placed(e, s)
<1>1. /\ f.dict = e.dict
      /\ \/ f.status = "failed"
         \/ f.status = e.status /\ f.op = e.op + SequenceSize(s) /\ f.seqs = Append(e.seqs, p)
  BY Zenon DEF EncodeSequence, EncoderSound, IsEncoder, IsRecord
<1>2. IsEncoder(e) /\ e.op \in Nat /\ e.ip \in Nat /\ ~ GaveUp(e)
  BY DEF EncoderSound, IsEncoder, Goes, GaveUp
<1>3. p \in PlacedSequence /\ p.token = e.op /\ p.length >= 4 /\ SequenceSize(p) = SequenceSize(s)
  <2>1. s.length >= 4
    BY <1>2, Places
  <2> QED
    BY <1>2, <2>1 DEF IsMatch, Placed, PlacedSequence, SequenceSize
<1> HIDE DEF f, p
<1>4. CASE f.status = "failed"
  BY <1>1, <1>4 DEF EncoderLaid, GaveUp, Goes, f
<1>5. CASE f.status = e.status /\ f.op = e.op + SequenceSize(s) /\ f.seqs = Append(e.seqs, p)
  <2>1. Row(e.seqs, e.op) /\ HaveMatches(e.seqs, Len(e.seqs))
    BY <1>2 DEF EncoderLaid
  <2>2. Row(f.seqs, f.op) /\ HaveMatches(f.seqs, Len(f.seqs))
    BY <1>2, <1>3, <1>5, <2>1, RowGrows
  <2>3. Goes(f)
    BY <1>5 DEF Goes
  <2> QED
    BY <1>1, <2>2, <2>3 DEF EncoderLaid, f
<1> QED
  BY <1>1, <1>4, <1>5

LEMMA EncodeLastLaid ==
  ASSUME NEW e, EncoderSound(e), EncoderLaid(e), Goes(e)
  PROVE  EncoderLaid(EncodeLast(e))
<1> DEFINE f == EncodeLast(e)
           last == [lit |-> e.n - e.ip, offset |-> 0, length |-> 0]
           p == Placed(e, last)
<1>1. /\ f.dict = e.dict
      /\ \/ f.status = "failed"
         \/ f.status = "encoded" /\ f.op = e.op + SequenceSize(last) /\ f.seqs = Append(e.seqs, p)
  BY Zenon DEF EncodeLast, EncoderSound, IsEncoder, IsRecord
<1>2. e.op \in Nat /\ e.ip \in Nat /\ e.n \in Nat /\ e.ip <= e.n /\ ~ GaveUp(e)
  BY DEF EncoderSound, IsEncoder, Compact, Goes, GaveUp
<1>3. p \in PlacedSequence /\ p.token = e.op /\ p.length = 0 /\ SequenceSize(p) = SequenceSize(last)
  <2>1. e.n - e.ip \in Nat
    BY <1>2
  <2> QED
    BY <1>2, <2>1 DEF Placed, PlacedSequence, SequenceSize
<1> HIDE DEF f, p, last
<1>4. CASE f.status = "failed"
  BY <1>1, <1>4 DEF EncoderLaid, GaveUp, Goes, f
<1>5. CASE f.status = "encoded" /\ f.op = e.op + SequenceSize(last) /\ f.seqs = Append(e.seqs, p)
  <2>1. Row(e.seqs, e.op) /\ HaveMatches(e.seqs, Len(e.seqs)) /\ Len(e.seqs) \in Nat
    BY <1>2 DEF EncoderLaid, Row
  <2>2. /\ Row(f.seqs, f.op) /\ Len(f.seqs) = Len(e.seqs) + 1
        /\ HaveMatches(f.seqs, Len(e.seqs))
    BY <1>2, <1>3, <1>5, <2>1, RowGrows
  <2>3. ~ Goes(f)
    BY <1>5 DEF Goes
  <2>4. Len(f.seqs) \in Nat \ {0} /\ Len(f.seqs) - 1 = Len(e.seqs)
    BY <2>1, <2>2
  <2> QED
    BY <1>1, <2>2, <2>3, <2>4 DEF EncoderLaid, f
<1> QED
  BY <1>1, <1>4, <1>5

LEMMA EncoderBeginsLaid ==
  ASSUME NEW n, NEW dict \in Nat, NEW hc, NEW room
  PROVE  EncoderLaid(Encoder(n, dict, hc, room))
<1> DEFINE e == Encoder(n, dict, hc, room)
<1>1. e.dict = dict /\ e.seqs = << >> /\ e.op = 0 /\ e.status = "encoding"
  BY DEF Encoder
<1> HIDE DEF e
<1>2. Goes(e) /\ ~ GaveUp(e)
  BY <1>1 DEF Goes, GaveUp
<1>3. Row(e.seqs, e.op) /\ HaveMatches(e.seqs, Len(e.seqs))
  BY <1>1 DEF Row, HaveMatches, Place
<1> QED
  BY <1>1, <1>2, <1>3 DEF EncoderLaid, e

-----------------------------------------------------------------------------
(* A decoder on its way through a block, or through the front of one.        *)

BlockSound(b) ==
  /\ b.n \in Nat /\ b.dict \in Nat /\ b.size \in Nat
  /\ Row(b.seqs, b.size)
  /\ Len(b.seqs) \in Nat \ {0} /\ HaveMatches(b.seqs, Len(b.seqs) - 1)

OnWay(d) ==
  /\ d.k \in 1 .. Len(d.seqs) /\ d.ip = Now(d).token /\ d.ip < d.iend
  /\ d.op <= d.cap /\ RoomAhead(d)

DecoderSound(d, b) ==
  /\ IsDecoder(d) /\ Inside(d)
  /\ d.seqs = b.seqs /\ d.iend <= b.size
  /\ Decoding(d) => OnWay(d)

LEMMA OnWayAtToken ==
  ASSUME NEW b, BlockSound(b), NEW d, DecoderSound(d, b), Decoding(d)
  PROVE  /\ AtToken(d)
         /\ Place(d.seqs, b.size, d.k + 1) = d.ip + SequenceSize(Now(d))
         /\ Now(d).length >= 4 => SequenceSize(Now(d)) = Size(d)
<1> DEFINE s == Now(d)
<1>1. /\ d.k \in 1 .. Len(d.seqs) /\ Len(d.seqs) \in Nat /\ d.ip = s.token /\ d.ip < d.iend /\ d.op <= d.cap
      /\ d.ip \in Nat /\ d.iend \in Nat /\ d.iend <= b.size /\ b.size \in Nat
  BY DEF BlockSound, DecoderSound, OnWay, IsDecoder
<1>2. /\ s \in PlacedSequence
      /\ Place(d.seqs, b.size, d.k + 1) = s.token + SequenceSize(s)
      /\ s.length = 0 \/ s.length >= 4
  BY <1>1 DEF BlockSound, DecoderSound, Row, Now
<1>3. s.token \in Nat /\ s.lit \in Nat /\ s.offset \in Nat /\ s.length \in Nat
  BY <1>2 DEF PlacedSequence
<1>4. d.k = Len(d.seqs) \/ s.length >= 4
  <2>1. HaveMatches(d.seqs, Len(d.seqs) - 1)
    BY DEF BlockSound, DecoderSound
  <2> QED
    BY <1>1, <2>1 DEF HaveMatches, Now
<1>5. AtWork(d)
  BY <1>2, <1>3 DEF AtWork, DecoderSound, IsSequence
<1> HIDE DEF s
<1>6. /\ s.length = 0 => SequenceSize(s) = 1 + LengthBytes(s.lit, 15) + s.lit
      /\ s.length >= 4 => SequenceSize(s) = 1 + LengthBytes(s.lit, 15) + s.lit + 2 + LengthBytes(s.length - 4, 15)
      /\ SequenceSize(s) \in Nat /\ LengthBytes(s.lit, 15) \in Nat
  BY <1>2, <1>3, SequenceSizes, LengthBytesBound
<1>7. s.length >= 4 \/ d.ip + 1 + LengthBytes(s.lit, 15) + s.lit >= d.iend
  <2>1. CASE d.k = Len(d.seqs) /\ s.length = 0
    <3>1. ~ (d.k + 1 <= Len(d.seqs))
      BY <1>1, <2>1
    <3>2. b.size = s.token + SequenceSize(s)
      BY <1>2, <3>1 DEF Place
    <3> QED
      BY <1>1, <1>3, <1>6, <2>1, <3>2, SMTT(60)
  <2> QED
    BY <1>2, <1>4, <2>1
<1>8. AtToken(d)
  BY <1>1, <1>5, <1>7 DEF AtToken, s
<1> QED
  BY <1>1, <1>2, <1>6, <1>8 DEF Size, LengthSize, s

LEMMA TurnSound ==
  ASSUME NEW b, BlockSound(b), NEW d, DecoderSound(d, b), Decoding(d),
         NEW f, Turns(f, d, d.ip + Size(d))
  PROVE  DecoderSound(f, b)
<1>1. f.seqs = d.seqs /\ f.iend = d.iend /\ IsDecoder(f) /\ Inside(f) /\ d.seqs = b.seqs /\ d.iend <= b.size
  BY DEF Turns, Ends, Arrives, SameBlock, DecoderSound
<1>2. CASE Ends(f, d)
  BY <1>1, <1>2 DEF Ends, DecoderSound
<1>3. CASE Arrives(f, d, d.ip + Size(d))
  <2>1. /\ f.k = d.k + 1 /\ f.ip = d.ip + Size(d) /\ f.ip < f.iend /\ f.op <= f.cap /\ RoomAhead(f)
        /\ Now(d).length >= 4
    BY <1>3 DEF Arrives
  <2>2. Place(f.seqs, b.size, f.k) = f.ip
    BY <1>1, <2>1, OnWayAtToken
  <2>3. /\ d.k \in 1 .. Len(f.seqs) /\ Len(f.seqs) \in Nat
        /\ f.iend \in Nat /\ f.ip \in Nat /\ b.size \in Nat /\ f.iend <= b.size
    BY <1>1 DEF DecoderSound, OnWay, BlockSound, IsDecoder
  <2>4. f.k <= Len(f.seqs)
    <3>1. CASE ~ (f.k <= Len(f.seqs))
      <4>1. f.ip = b.size
        BY <2>2, <3>1 DEF Place
      <4> QED
        BY <2>1, <2>3, <4>1
    <3> QED
      BY <3>1
  <2>5. f.k \in 1 .. Len(f.seqs) /\ f.ip = Now(f).token
    BY <2>1, <2>2, <2>3, <2>4 DEF Place, Now
  <2> QED
    BY <1>1, <2>1, <2>5 DEF DecoderSound, OnWay
<1> QED
  BY <1>2, <1>3 DEF Turns

LEMMA DecoderBegins ==
  ASSUME NEW b, b.dict \in Nat, NEW iend \in Nat, NEW cap \in Nat, NEW fast
  PROVE  LET d == Decoder(b, iend, cap, fast)
         IN  /\ IsDecoder(d) /\ Inside(d)
             /\ BlockSound(b) /\ iend <= b.size => DecoderSound(d, b)
<1> DEFINE d == Decoder(b, iend, cap, fast)
<1>1. /\ DOMAIN d = DecoderFields /\ d.seqs = b.seqs /\ d.dict = b.dict /\ d.iend = iend /\ d.cap = cap
      /\ d.k = 1 /\ d.ip = 0 /\ d.op = 0 /\ d.rhigh = 0 /\ d.rlow = 0 /\ d.whigh = 0
      /\ d.fast => cap >= FASTLOOP_SAFE_DISTANCE
  BY DEF Decoder, DecoderFields
<1>2. Decoding(d) => iend # 0
  BY DEF Decoder, Decoding
<1> HIDE DEF d
<1>3. IsDecoder(d) /\ Inside(d)
  BY <1>1 DEF IsDecoder, Inside
<1>4. ASSUME BlockSound(b), iend <= b.size PROVE DecoderSound(d, b)
  <2>1. 1 \in 1 .. Len(b.seqs) /\ b.seqs[1].token = 0
    BY <1>4 DEF BlockSound, Row, Place
  <2>2. RoomAhead(d)
    <3>1. cap >= FASTLOOP_SAFE_DISTANCE => 0 + 64 <= cap
      BY DEF FASTLOOP_SAFE_DISTANCE
    <3> QED
      BY <1>1, <3>1 DEF RoomAhead
  <2>3. Decoding(d) => OnWay(d)
    BY <1>1, <1>2, <2>1, <2>2 DEF OnWay, Now
  <2> QED
    BY <1>1, <1>3, <1>4, <2>3 DEF DecoderSound
<1> QED
  BY <1>3, <1>4 DEF d

LEMMA LoopSound ==
  ASSUME NEW b, BlockSound(b), NEW d, DecoderSound(d, b), Decoding(d)
  PROVE  /\ d.fast => DecoderSound(FastSequence(d), b)
         /\ ~ d.fast => DecoderSound(SafeSequence(d), b)
<1>1. AtToken(d)
  BY OnWayAtToken
<1>2. ASSUME d.fast PROVE DecoderSound(FastSequence(d), b)
  <2>1. d.op + 64 <= d.cap
    BY <1>2 DEF DecoderSound, OnWay, RoomAhead
  <2> QED
    BY <1>1, <2>1, FastSequenceTurns, TurnSound
<1>3. ASSUME ~ d.fast PROVE DecoderSound(SafeSequence(d), b)
  BY <1>1, <1>3, SafeSequenceTurns, TurnSound
<1> QED
  BY <1>2, <1>3

-----------------------------------------------------------------------------
\* lz4.block: the compressor's sequences lie in a row, the block's too once it is
\* made, and a decoder is on its way through them.
HasBlock == phase \in {"compressed", "decompressing", "returned"}
IsDecompressing == phase = "decompressing"

BlockIInv ==
  /\ EncoderSound(enc) /\ EncoderLaid(enc)
  /\ HasBlock => BlockSound(block)
  /\ IsDecoder(dec) /\ Inside(dec)
  /\ IsDecompressing => DecoderSound(dec, block)

LEMMA NoDecoderSound == IsDecoder(NoDecoder) /\ Inside(NoDecoder)
<1> DEFINE b == [NoBlock EXCEPT !.seqs = << Placed(NoEncoder, [lit |-> 0, offset |-> 0, length |-> 0]) >>]
<1>1. b.dict \in Nat /\ 0 \in Nat
  BY DEF NoBlock
<1> HIDE DEF b
<1>2. IsDecoder(Decoder(b, 0, 0, FALSE)) /\ Inside(Decoder(b, 0, 0, FALSE))
  BY <1>1, DecoderBegins
<1> QED
  BY <1>2 DEF NoDecoder, b

LEMMA InitBlockIInv == Init => BlockIInv
<1>1. EncoderLaid(NoEncoder)
  BY EncoderBeginsLaid DEF NoEncoder
<1> QED
  BY <1>1, NoEncoderSound, NoDecoderSound DEF Init, BlockIInv, HasBlock, IsDecompressing

\* What compress and LZ4F_makeBlock leave, a step of the compressor and its end.
LEMMA CompressingStep ==
  ASSUME BlockIInv, compress \/ LZ4F_makeBlock \/ EncodeMatch \/ EncodeLastLiterals \/ CompressReturns
  PROVE  EncoderLaid(enc') /\ (HasBlock' => BlockSound(block'))
<1>1. CASE compress
  <2>1. PICK n \in Sizes, dict \in DictSizes, hc \in BOOLEAN :
          enc' = Encoder(n, dict, hc, LZ4_compressBound(n))
    BY <1>1 DEF compress
  <2>2. EncoderLaid(enc')
    BY <2>1, EncoderBeginsLaid, BlockAssumption
  <2> QED
    BY <1>1, <2>2 DEF compress, HasBlock
<1>2. CASE LZ4F_makeBlock
  <2>1. PICK n \in Sizes \ {0}, dict \in DictSizes, hc \in BOOLEAN : enc' = Encoder(n, dict, hc, n - 1)
    BY <1>2 DEF LZ4F_makeBlock
  <2>2. EncoderLaid(enc')
    BY <2>1, EncoderBeginsLaid, BlockAssumption
  <2> QED
    BY <1>2, <2>2 DEF LZ4F_makeBlock, HasBlock
<1>3. CASE EncodeMatch
  <2>1. PICK s \in Matches, direct \in BOOLEAN :
          MatchAllowed(enc, s) /\ enc' = EncodeSequence(enc, s, direct)
    BY <1>3 DEF EncodeMatch
  <2>2. IsMatch(s)
    BY BlockAssumption DEF IsMatch
  <2>3. Goes(enc)
    BY <1>3 DEF EncodeMatch, Encoding, Goes
  <2>4. EncoderLaid(enc')
    BY <2>1, <2>2, <2>3, EncodeSequenceLaid DEF BlockIInv
  <2> QED
    BY <1>3, <2>4 DEF EncodeMatch, Encoding, HasBlock
<1>4. CASE EncodeLastLiterals
  <2>1. Goes(enc) /\ enc' = EncodeLast(enc)
    BY <1>4 DEF EncodeLastLiterals, Encoding, Goes
  <2>2. EncoderLaid(enc')
    BY <2>1, EncodeLastLaid DEF BlockIInv
  <2> QED
    BY <1>4, <2>2 DEF EncodeLastLiterals, Encoding, HasBlock
<1>5. CASE CompressReturns
  <2>1. EncoderLaid(enc')
    BY <1>5, EncoderBeginsLaid DEF CompressReturns, NoEncoder
  <2>2. CASE GaveUp(enc)
    BY <1>5, <2>1, <2>2 DEF CompressReturns, GaveUp, HasBlock
  <2>3. CASE ~ GaveUp(enc)
    <3>1. block' = [n |-> enc.n, dict |-> enc.dict, seqs |-> enc.seqs, data |-> enc.data, size |-> enc.op]
      BY <1>5, <2>3 DEF CompressReturns, GaveUp
    <3>2. ~ Goes(enc)
      BY <1>5 DEF CompressReturns, Goes
    <3>3. /\ enc.n \in Nat /\ enc.dict \in Nat /\ enc.op \in Nat /\ Row(enc.seqs, enc.op)
          /\ Len(enc.seqs) \in Nat \ {0} /\ HaveMatches(enc.seqs, Len(enc.seqs) - 1)
      BY <2>3, <3>2 DEF BlockIInv, EncoderSound, IsEncoder, EncoderLaid
    <3>4. BlockSound(block')
      BY <3>1, <3>3 DEF BlockSound
    <3> QED
      BY <2>1, <3>4
  <2> QED
    BY <2>2, <2>3
<1> QED
  BY <1>1, <1>2, <1>3, <1>4, <1>5

LEMMA NextBlockIInv == BlockIInv /\ [Next]_vars => BlockIInv'
<1> SUFFICES ASSUME BlockIInv, [Next]_vars PROVE BlockIInv'
  OBVIOUS
<1>1. EncoderSound(enc')
  BY NextIInv DEF BlockIInv, IInv
<1>2. CASE compress \/ LZ4F_makeBlock \/ EncodeMatch \/ EncodeLastLiterals \/ CompressReturns
  <2>1. dec' = dec /\ ~ IsDecompressing'
    BY <1>2 DEF compress, LZ4F_makeBlock, EncodeMatch, EncodeLastLiterals, Encoding, CompressReturns, IsDecompressing
  <2> QED
    BY <1>1, <1>2, <2>1, CompressingStep DEF BlockIInv
<1>3. CASE decompress
  <2>1. enc' = enc /\ block' = block /\ BlockSound(block)
    BY <1>3 DEF decompress, BlockIInv, HasBlock
  <2>2. PICK cut \in Cuts, fast \in BOOLEAN :
          \/ /\ block.size - cut < 0 /\ phase' = "returned" /\ dec' = dec
          \/ /\ block.size - cut >= 0 /\ dec' = Decoder(block, block.size - cut, block.n, fast)
          \/ /\ cut <= block.size
             /\ \E extra \in Extra :
                  block.n + extra >= 0 /\ dec' = Decoder(block, block.size - cut, block.n + extra, fast)
    <3>1. ASSUME NEW cut \in Cuts PROVE block.size - cut \in Int
      BY <2>1, BlockAssumption DEF BlockSound
    <3>2. \A cut \in Cuts : ~ (block.size - cut < 0) => block.size - cut >= 0
      BY <3>1
    <3> QED
      BY <1>3, <3>2 DEF decompress
  <2>3. cut \in Nat /\ block.size \in Nat /\ block.n \in Nat /\ block.dict \in Nat
    BY <2>1, BlockAssumption DEF BlockSound
  <2>4. CASE block.size - cut < 0 /\ phase' = "returned" /\ dec' = dec
    BY <1>1, <2>1, <2>4 DEF BlockIInv, IsDecompressing
  <2>5. ASSUME block.size - cut >= 0, NEW cap \in Nat, dec' = Decoder(block, block.size - cut, cap, fast)
        PROVE  IsDecoder(dec') /\ Inside(dec') /\ DecoderSound(dec', block)
    <3>1. block.size - cut \in Nat /\ block.size - cut <= block.size
      BY <2>3, <2>5
    <3> QED
      BY <2>1, <2>3, <2>5, <3>1, DecoderBegins
  <2>6. CASE block.size - cut >= 0 /\ dec' = Decoder(block, block.size - cut, block.n, fast)
    <3>1. IsDecoder(dec') /\ Inside(dec') /\ DecoderSound(dec', block)
      BY <2>3, <2>5, <2>6
    <3> QED
      BY <1>1, <2>1, <3>1 DEF BlockIInv
  <2>7. CASE /\ cut <= block.size
             /\ \E extra \in Extra :
                  block.n + extra >= 0 /\ dec' = Decoder(block, block.size - cut, block.n + extra, fast)
    <3>1. PICK extra \in Extra :
            block.n + extra >= 0 /\ dec' = Decoder(block, block.size - cut, block.n + extra, fast)
      BY <2>7
    <3>2. block.n + extra \in Nat /\ block.size - cut >= 0
      BY <2>3, <2>7, <3>1, BlockAssumption
    <3>3. IsDecoder(dec') /\ Inside(dec') /\ DecoderSound(dec', block)
      BY <2>5, <3>1, <3>2
    <3> QED
      BY <1>1, <2>1, <3>3 DEF BlockIInv
  <2> QED
    BY <2>2, <2>4, <2>6, <2>7
<1>4. CASE FastLoop \/ MainLoop
  <2>1. IsDecompressing /\ HasBlock /\ Decoding(dec)
    BY <1>4 DEF FastLoop, MainLoop, IsDecompressing, HasBlock, Decoding
  <2>2. enc' = enc /\ block' = block /\ phase' = phase
    BY <1>4 DEF FastLoop, MainLoop
  <2>3. \/ dec.fast /\ dec' = FastSequence(dec)
        \/ ~ dec.fast /\ dec' = SafeSequence(dec)
    BY <1>4 DEF FastLoop, MainLoop
  <2>4. BlockSound(block) /\ DecoderSound(dec, block)
    BY <2>1 DEF BlockIInv
  <2>5. DecoderSound(dec', block)
    BY <2>1, <2>3, <2>4, LoopSound
  <2> QED
    BY <1>1, <2>2, <2>4, <2>5 DEF BlockIInv, DecoderSound
<1>5. CASE DecompressReturns
  BY <1>1, <1>5 DEF DecompressReturns, BlockIInv, HasBlock, IsDecompressing
<1>6. CASE Again
  BY <1>1, <1>6, NoDecoderSound DEF Again, BlockIInv, HasBlock, IsDecompressing
<1>7. CASE Done
  BY <1>1, <1>7 DEF Done, BlockIInv, HasBlock, IsDecompressing
<1>8. CASE UNCHANGED vars
  BY <1>8 DEF vars, BlockIInv, HasBlock, IsDecompressing
<1> QED
  BY <1>2, <1>3, <1>4, <1>5, <1>6, <1>7, <1>8 DEF Next

\* Every copy of both directions stays in its buffers, those in words that go
\* past their end included: for inputs, dictionaries and matches of any size,
\* whatever room a caller gives, and wherever a block was cut
\* (LZ4_decompress_generic, lz4.c:1937-2339, and the checks of room of the
\* compressors, lz4.c:1085, 1158, 1269, lz4hc.c:503, 531).
THEOREM CopiesStayInBounds == Spec => []InBounds
<1>1. BlockIInv => InBounds
  <2> SUFFICES ASSUME BlockIInv PROVE InBounds
    OBVIOUS
  <2>1. CompressInBounds
    BY DEF BlockIInv, EncoderSound, Contained, CompressInBounds
  <2>2. DecompressInBounds
    BY SMT DEF BlockIInv, IsDecoder, Inside, DecompressInBounds, Greater
  <2> QED
    BY <2>1, <2>2 DEF InBounds
<1> QED
  BY <1>1, InitBlockIInv, NextBlockIInv, PTL DEF Spec

-----------------------------------------------------------------------------
(* What comes back.                                                          *)

\* Where the content of a sequence begins.
Start(seqs, end, i) == IF i <= Len(seqs) THEN seqs[i].at ELSE end

\* The bytes p of data from `from` to below `to` are the literals, the match.
LiteralIn(data, s) == \A p \in s.at .. s.at + s.lit - 1 : data[p + 1] = p
MatchIn(data, s) ==
  \A p \in s.at + s.lit .. s.at + s.lit + s.length - 1 : data[p + 1] = ByteAt(data, p - s.offset)

\* What the format asks of a match.
MatchPlaced(s, n, dict) ==
  /\ s.offset \in 1 .. s.at + s.lit + dict
  /\ s.at + s.lit + 12 <= n /\ s.at + s.lit + s.length + 5 <= n

\* The sequences say what the content is, up to end.
Tells(seqs, data, end, n, dict) ==
  /\ data \in Seq(Int) /\ Len(data) = end
  /\ Start(seqs, end, 1) = 0
  /\ \A i \in 1 .. Len(seqs) : LET s == seqs[i] IN
       /\ Start(seqs, end, i + 1) = s.at + s.lit + s.length
       /\ s.at + s.lit + s.length <= end
       /\ LiteralIn(data, s) /\ MatchIn(data, s)
       /\ s.length = 0 \/ MatchPlaced(s, n, dict)

\* Behind a match there is more: a token and five literals.
MoreBehind(seqs, size) == \A i \in 1 .. Len(seqs) : i > 1 => seqs[i].token + 6 <= size

EncoderTells(e) ==
  /\ ~ GaveUp(e) => Tells(e.seqs, e.data, e.ip, e.n, e.dict)
  /\ Goes(e) => \A i \in 1 .. Len(e.seqs) : e.seqs[i].token <= e.op
  /\ Goes(e) /\ e.seqs # << >> => e.ip + 5 <= e.n
  /\ ~ Goes(e) /\ ~ GaveUp(e) => e.ip = e.n /\ e.seqs[Len(e.seqs)].length = 0 /\ MoreBehind(e.seqs, e.op)

BlockTells(b) ==
  /\ Tells(b.seqs, b.data, b.n, b.n, b.dict)
  /\ b.seqs[Len(b.seqs)].length = 0 /\ MoreBehind(b.seqs, b.size)

Correct(mem, data, n) == \A p \in 0 .. n - 1 : mem[p] = data[p + 1]
Finished(d) == d.status = "done"

-----------------------------------------------------------------------------
(* Copies.                                                                   *)

\* A byte of the destination, or of the dictionary in front of it.
Byte(m, p) == IF p < 0 THEN p ELSE m[p]

\* Memory m is b below op, and repeats from there to `to` what lies offset bytes
\* before: what the format asks of a match, said without the words it is copied
\* in.
Repeats(m, b, op, offset, to) ==
  /\ DOMAIN m = DOMAIN b
  /\ \A p \in DOMAIN b : p < op => m[p] = b[p]
  /\ \A p \in DOMAIN b : op <= p /\ p < to => m[p] = Byte(m, p - offset)

Buffer(b, cap) == DOMAIN b = 0 .. cap - 1

\* Nothing repeated is the memory as it was.
LEMMA RepeatsNothing ==
  ASSUME NEW m, NEW op \in Int, NEW offset, NEW cap \in Nat, Buffer(m, cap)
  PROVE  Repeats(m, m, op, offset, op)
BY SMT DEF Repeats, Buffer

\* What repeats to an end repeats to any end before it.
LEMMA RepeatsLess ==
  ASSUME NEW cap \in Nat, NEW m, NEW b, Buffer(b, cap), NEW op, NEW offset, NEW to \in Int, NEW less \in Int,
         less <= to, Repeats(m, b, op, offset, to)
  PROVE  Repeats(m, b, op, offset, less)
<1>1. ASSUME NEW p \in DOMAIN b, op <= p, p < less PROVE m[p] = Byte(m, p - offset)
  <2>1. p < to
    BY <1>1, SMT DEF Buffer
  <2> QED BY <1>1, <2>1 DEF Repeats
<1> QED BY <1>1 DEF Repeats

\* Several times the offset back there is the same.
LEMMA Back ==
  ASSUME NEW cap \in Nat, NEW b, Buffer(b, cap), NEW op \in Nat, NEW offset \in Nat \ {0}, offset <= op,
         NEW to \in Int, NEW m, Repeats(m, b, op, offset, to),
         NEW q \in Nat, NEW p \in Int, p < to, p < cap, p - q * offset >= op - offset
  PROVE  m[p] = m[p - q * offset]
<1> DEFINE Good == {n \in Nat : \A x \in Int : x < to /\ x < cap /\ x - n * offset >= op - offset => m[x] = m[x - n * offset]}
<1>1. 0 \in Good
  <2>1. ASSUME NEW x \in Int PROVE x - 0 * offset = x
    BY SMT
  <2> QED BY <2>1
<1>2. ASSUME NEW n \in Good \cap Nat PROVE n + 1 \in Good
  <2> DEFINE far == n * offset
  <2>1. (n + 1) * offset = far + offset /\ far \in Nat
    BY SMT
  <2>2. SUFFICES ASSUME NEW x \in Int, x < to, x < cap, x - (n + 1) * offset >= op - offset
                 PROVE  m[x] = m[x - (n + 1) * offset]
    BY SMT
  <2>3. \A y \in Int : y < to /\ y < cap /\ y - far >= op - offset => m[y] = m[y - far]
    OBVIOUS
  <2> HIDE DEF far
  <2>4. x - (n + 1) * offset = x - offset - far
    BY <2>1, SMT
  <2>5. /\ x - offset \in Int /\ x - offset < to /\ x - offset < cap
        /\ x - offset - far >= op - offset /\ x >= op /\ x \in 0 .. cap - 1 /\ ~ (x - offset < 0)
    BY <2>1, <2>2, <2>4, SMT
  <2>6. m[x] = Byte(m, x - offset)
    BY <2>2, <2>5 DEF Repeats, Buffer
  <2>7. m[x] = m[x - offset]
    BY <2>5, <2>6 DEF Byte
  <2>8. m[x - offset] = m[x - offset - far]
    BY <2>3, <2>5
  <2> QED BY <2>4, <2>7, <2>8
<1>3. Nat \subseteq Good
  <2> HIDE DEF Good
  <2> QED BY <1>1, <1>2, SetInduction
<1>4. q \in Good
  BY <1>3
<1> QED BY <1>4

\* The distance at which a copy reads is some times the offset, and it reads from
\* where the match begins or later.
Distance(D, op, offset, to) == (\E q \in Nat : D = q * offset + offset) /\ D \in Nat \ {0} /\ to - D >= op - offset

\* Some times the offset back lies the same byte as the offset back.
LEMMA Farther ==
  ASSUME NEW cap \in Nat, NEW b, Buffer(b, cap), NEW op \in Nat, NEW offset \in Nat \ {0}, offset <= op,
         NEW to \in Int, NEW m, Repeats(m, b, op, offset, to), NEW D, Distance(D, op, offset, to),
         NEW p \in Int, p - offset < to, p - offset < cap, p >= to
  PROVE  m[p - D] = m[p - offset]
<1>1. PICK q \in Nat : D = q * offset + offset
  BY DEF Distance
<1> DEFINE far == q * offset
           x == p - offset
<1>2. far \in Nat /\ D = far + offset /\ D \in Nat /\ to - D >= op - offset
  BY <1>1, SMT DEF Distance
<1>3. x - far = p - D /\ x \in Int /\ x < to /\ x < cap /\ x - far >= op - offset
  <2> HIDE DEF far
  <2> QED BY <1>2, SMT
<1> HIDE DEF x
<1>4. m[x] = m[x - q * offset]
  BY <1>3, Back
<1> QED BY <1>3, <1>4 DEF x

\* A word, no longer than the distance, repeats on.
LEMMA WordRepeats ==
  ASSUME NEW cap \in Nat, NEW b, Buffer(b, cap), NEW op \in Nat, NEW offset \in Nat \ {0}, offset <= op,
         NEW to \in Nat, op <= to, NEW m, Repeats(m, b, op, offset, to), NEW D, Distance(D, op, offset, to),
         NEW size \in Nat, size <= D, NEW from, from = to - D
  PROVE  Repeats(Word(m, to, from, size), b, op, offset, to + size)
<1> DEFINE w == Word(m, to, from, size)
<1>1. D \in Nat \ {0} /\ to - D >= op - offset /\ from \in Nat /\ offset <= D
  <2>1. PICK q \in Nat : D = q * offset + offset
    BY DEF Distance
  <2>2. q * offset \in Nat
    BY <2>1, SMT
  <2> QED BY <2>1, <2>2, SMT DEF Distance
<1>2. DOMAIN m = 0 .. cap - 1 /\ DOMAIN b = 0 .. cap - 1 /\ DOMAIN w = 0 .. cap - 1
  BY DEF Repeats, Buffer, Word
<1>3. ASSUME NEW p \in 0 .. cap - 1, p < to PROVE w[p] = m[p]
  BY <1>2, <1>3, SMT DEF Word
<1>4. ASSUME NEW p \in 0 .. cap - 1, to <= p, p < to + size PROVE w[p] = m[p - D]
  <2>1. from + (p - to) = p - D /\ p - D \in 0 .. cap - 1
    BY <1>1, <1>4, SMT
  <2>2. w[p] = At(m, from + (p - to))
    BY <1>2, <1>4, SMT DEF Word
  <2> QED BY <1>2, <2>1, <2>2 DEF At
<1> HIDE DEF w
<1>5. ASSUME NEW p \in 0 .. cap - 1, p < op PROVE w[p] = b[p]
  BY <1>2, <1>3, <1>5, SMT DEF Repeats
<1>6. ASSUME NEW p \in 0 .. cap - 1, op <= p, p < to + size PROVE w[p] = w[p - offset]
  <2>1. p - offset \in 0 .. cap - 1
    BY <1>6, SMT
  <2>2. CASE p < to
    <3>1. m[p] = Byte(m, p - offset) /\ ~ (p - offset < 0)
      BY <1>2, <1>6, <2>1, <2>2, SMT DEF Repeats
    <3>2. p - offset < to
      BY <2>2, SMT
    <3> QED BY <1>3, <2>1, <2>2, <3>1, <3>2 DEF Byte
  <2>3. CASE to <= p /\ p - offset < to
    <3>1. m[p - D] = m[p - offset]
      <4>1. p \in Int /\ p - offset < cap /\ p >= to
        BY <2>1, <2>3, SMT
      <4> QED BY <2>3, <4>1, Farther
    <3> QED BY <1>3, <1>4, <1>6, <2>1, <2>3, <3>1
  <2>4. CASE to <= p - offset
    <3>1. /\ p - offset < to + size /\ to <= p /\ p - D \in 0 .. cap - 1 /\ op <= p - D /\ p - D < to
          /\ p - offset - D = p - D - offset /\ ~ (p - D - offset < 0)
      BY <1>1, <1>6, <2>4, SMT
    <3>2. w[p] = m[p - D] /\ w[p - offset] = m[p - offset - D]
      BY <1>4, <1>6, <2>1, <2>4, <3>1
    <3>3. m[p - D] = Byte(m, p - D - offset)
      BY <1>2, <3>1 DEF Repeats
    <3> QED BY <3>1, <3>2, <3>3 DEF Byte
  <2> QED BY <1>1, <1>6, <2>2, <2>3, <2>4, SMT
<1>7. ASSUME NEW p \in 0 .. cap - 1, op <= p, p < to + size PROVE w[p] = Byte(w, p - offset)
  <2>1. ~ (p - offset < 0)
    BY <1>7, SMT
  <2> QED BY <1>6, <1>7, <2>1 DEF Byte
<1> QED BY <1>2, <1>5, <1>7 DEF Repeats, w

\* The remainder of a number and of what lies offset before it.
LEMMA Remainder ==
  ASSUME NEW D \in Nat \ {0}, NEW x \in Nat
  PROVE  x % D \in 0 .. D - 1 /\ (x < D => x % D = x)
<1>1. x % D \in 0 .. D - 1
  BY SMT
<1>2. ASSUME x < D PROVE x % D = x
  BY <1>2, SMT
<1> QED BY <1>1, <1>2

\* A remainder is known by its quotient.
LEMMA RemainderIs ==
  ASSUME NEW D \in Nat \ {0}, NEW k \in Int, NEW r \in 0 .. D - 1
  PROVE  (D * k + r) % D = r
<1> DEFINE x == D * k + r
           j == x \div D
           s == x % D
<1>1. x \in Int /\ j \in Int /\ s \in 0 .. D - 1 /\ x = D * j + s
  BY SMT
<1>2. D * (k - j) = s - r
  BY <1>1, SMT
<1>3. k - j = 0
  <2>1. CASE k - j >= 1
    <3>1. D * (k - j) >= D
      BY <1>1, <2>1, SMT
    <3> QED BY <1>1, <1>2, <3>1, SMT
  <2>2. CASE k - j <= -1
    <3>1. D * (k - j) <= - D
      BY <1>1, <2>2, SMT
    <3> QED BY <1>1, <1>2, <3>1, SMT
  <2> QED BY <1>1, <2>1, <2>2, SMT
<1>4. s = r
  <2>1. D * (k - j) = 0
    BY <1>3, SMT
  <2> QED BY <1>1, <1>2, <2>1, SMT
<1> QED BY <1>4

\* The remainder of what lies an offset before.
LEMMA RemainderBack ==
  ASSUME NEW D \in Nat \ {0}, NEW offset \in 1 .. D, NEW x \in Nat, x >= offset
  PROVE  (x - offset) % D = IF x % D >= offset THEN (x % D) - offset ELSE (x % D) - offset + D
<1> DEFINE j == x \div D
           r == x % D
<1>1. j \in Int /\ r \in 0 .. D - 1 /\ x = D * j + r
  BY SMT
<1>2. CASE r >= offset
  <2>1. r - offset \in 0 .. D - 1 /\ x - offset = D * j + (r - offset)
    BY <1>1, <1>2, SMT
  <2>2. (D * j + (r - offset)) % D = r - offset
    BY <1>1, <2>1, RemainderIs
  <2> QED BY <1>2, <2>1, <2>2
<1>3. CASE r < offset
  <2>1. r - offset + D \in 0 .. D - 1 /\ j - 1 \in Int
    BY <1>1, <1>3, SMT
  <2>2. x - offset = D * (j - 1) + (r - offset + D)
    BY <1>1, SMT
  <2>3. (D * (j - 1) + (r - offset + D)) % D = r - offset + D
    BY <2>1, RemainderIs
  <2>4. ~ (r >= offset)
    BY <1>1, <1>3, SMT
  <2> QED BY <2>2, <2>3, <2>4
<1> QED BY <1>1, <1>2, <1>3, SMT

\* Bytes, one after the other.
LEMMA BytewiseRepeats ==
  ASSUME NEW cap \in Nat, NEW b, Buffer(b, cap), NEW op \in Nat, NEW offset \in Nat \ {0}, offset <= op,
         NEW to \in Nat, op <= to, NEW m, Repeats(m, b, op, offset, to), NEW D, Distance(D, op, offset, to),
         NEW n \in Int, NEW from, from = to - D
  PROVE  Repeats(Bytewise(m, to, from, n), b, op, offset, to + n)
<1> DEFINE w == Bytewise(m, to, from, n)
           R(p) == (p - to) % D
<1>1. D \in Nat \ {0} /\ to - D >= op - offset /\ from \in Nat /\ offset \in 1 .. D /\ to - from = D
  <2>1. PICK q \in Nat : D = q * offset + offset
    BY DEF Distance
  <2>2. q * offset \in Nat
    BY <2>1, SMT
  <2> QED BY <2>1, <2>2, SMT DEF Distance
<1>2. DOMAIN m = 0 .. cap - 1 /\ DOMAIN b = 0 .. cap - 1 /\ DOMAIN w = 0 .. cap - 1
  BY DEF Repeats, Buffer, Bytewise
<1>3. ASSUME NEW p \in 0 .. cap - 1, p < to PROVE w[p] = m[p]
  BY <1>2, <1>3, SMT DEF Bytewise
<1>4. ASSUME NEW p \in 0 .. cap - 1, to <= p, p < to + n
      PROVE  w[p] = m[from + R(p)] /\ R(p) \in 0 .. D - 1 /\ (p - to < D => R(p) = p - to)
  <2>1. p - to \in Nat
    BY <1>4, SMT
  <2>2. R(p) \in 0 .. D - 1 /\ (p - to < D => R(p) = p - to)
    BY <1>1, <2>1, Remainder
  <2>3. w[p] = At(m, from + ((p - to) % (to - from)))
    BY <1>2, <1>4, SMT DEF Bytewise
  <2>4. w[p] = At(m, from + R(p))
    BY <1>1, <2>3
  <2> HIDE DEF R
  <2>5. from + R(p) \in 0 .. cap - 1
    BY <1>1, <1>4, <2>2, SMT
  <2> QED BY <1>2, <2>2, <2>4, <2>5 DEF At
<1> HIDE DEF w
<1>5. ASSUME NEW p \in 0 .. cap - 1, p < op PROVE w[p] = b[p]
  BY <1>2, <1>3, <1>5, SMT DEF Repeats
<1>6. ASSUME NEW p \in 0 .. cap - 1, op <= p, p < to + n PROVE w[p] = w[p - offset]
  <2>1. p - offset \in 0 .. cap - 1
    BY <1>6, SMT
  <2>2. CASE p < to
    <3>1. m[p] = Byte(m, p - offset) /\ ~ (p - offset < 0)
      BY <1>2, <1>6, <2>1, <2>2, SMT DEF Repeats
    <3>2. p - offset < to
      BY <2>2, SMT
    <3> QED BY <1>3, <2>1, <2>2, <3>1, <3>2 DEF Byte
  <2>3. CASE to <= p /\ p - offset < to
    <3>1. p \in Int /\ p - offset < cap /\ p >= to /\ p - to < D
      BY <1>1, <2>1, <2>3, SMT
    <3>2. m[p - D] = m[p - offset]
      BY <2>3, <3>1, Farther
    <3>3. w[p] = m[from + R(p)] /\ R(p) = p - to
      BY <1>4, <1>6, <2>3, <3>1
    <3>4. from + (p - to) = p - D
      BY <1>1, SMT
    <3>5. w[p - offset] = m[p - offset]
      BY <1>3, <2>1, <2>3
    <3> QED BY <3>2, <3>3, <3>4, <3>5
  <2>4. CASE to <= p - offset
    <3> DEFINE r == R(p)
               s == R(p - offset)
    <3>1. p - offset < to + n /\ to <= p /\ p - to \in Nat /\ p - to >= offset /\ p - offset - to = p - to - offset
      BY <1>1, <1>6, <2>4, SMT
    <3>2. w[p] = m[from + r] /\ w[p - offset] = m[from + s] /\ r \in 0 .. D - 1
      BY <1>4, <1>6, <2>1, <2>4, <3>1
    <3>3. s = IF r >= offset THEN r - offset ELSE r - offset + D
      <4> DEFINE x == p - to
      <4>1. x \in Nat /\ x >= offset /\ s = (x - offset) % D
        BY <3>1
      <4>2. (x - offset) % D = IF x % D >= offset THEN (x % D) - offset ELSE (x % D) - offset + D
        <5> HIDE DEF x
        <5> QED BY <1>1, <4>1, RemainderBack
      <4> QED BY <4>1, <4>2
    <3>4. from + r < cap /\ from + r \in Int
      BY <1>1, <1>6, <3>1, <3>2, SMT
    <3> HIDE DEF r, s
    <3>5. CASE r >= offset
      <4> DEFINE x == from + r
      <4>1. x \in 0 .. cap - 1 /\ op <= x /\ x < to /\ from + s = x - offset /\ ~ (x - offset < 0)
        BY <1>1, <1>6, <3>1, <3>2, <3>3, <3>5, SMT
      <4>2. w[p] = m[x]
        BY <3>2
      <4> HIDE DEF x
      <4>3. m[x] = Byte(m, x - offset)
        BY <1>2, <4>1 DEF Repeats
      <4> QED BY <3>2, <4>1, <4>2, <4>3 DEF Byte
    <3>6. CASE r < offset
      <4> DEFINE x == from + r + D
      <4>1. x \in Int /\ x - offset < to /\ x - offset < cap /\ x >= to /\ x - D = from + r /\ from + s = x - offset
        BY <1>1, <1>6, <3>1, <3>2, <3>3, <3>6, SMT
      <4> HIDE DEF x
      <4>2. m[x - D] = m[x - offset]
        BY <4>1, Farther
      <4> QED BY <3>2, <4>1, <4>2
    <3> QED BY <1>1, <3>2, <3>5, <3>6, SMT
  <2> QED BY <1>1, <1>6, <2>2, <2>3, <2>4, SMT
<1>7. ASSUME NEW p \in 0 .. cap - 1, op <= p, p < to + n PROVE w[p] = Byte(w, p - offset)
  <2>1. ~ (p - offset < 0)
    BY <1>7, SMT
  <2> QED BY <1>6, <1>7, <2>1 DEF Byte
<1> QED BY <1>2, <1>5, <1>7 DEF Repeats, w

\* A distance stays one at a later end.
LEMMA DistanceOn ==
  ASSUME NEW D, NEW op, NEW offset, NEW to \in Int, Distance(D, op, offset, to), NEW far \in Int, to <= far,
         op - offset \in Int
  PROVE  Distance(D, op, offset, far)
BY SMT DEF Distance

\* Words, at least one, up to end.
LEMMA WordsAtLeast ==
  ASSUME NEW to \in Nat, NEW end \in Nat, NEW size \in {8, 16, 32}
  PROVE  /\ Words(to, end, size) \in Nat \ {0}
         /\ Reached(to, end, size) = to + size * Words(to, end, size)
         /\ Reached(to, end, size) \in Nat /\ Reached(to, end, size) >= end /\ Reached(to, end, size) > to
<1> DEFINE n == Words(to, end, size)
<1>1. Reached(to, end, size) = to + size * n
  BY DEF Reached
<1>2. CASE end <= to
  <2>1. n = 1
    BY <1>2 DEF Words
  <2> QED BY <1>1, <1>2, <2>1, SMT
<1>3. CASE end > to
  <2> DEFINE x == end - to + size - 1
  <2>1. x \in Nat /\ x >= size
    BY <1>3, SMT
  <2>2. n = x \div size
    BY <1>3, SMT DEF Words
  <2>3. x \div size \in Nat /\ x < size * (x \div size) + size
    BY <2>1, Quotient, SMT
  <2>4. n \in Nat /\ x < size * n + size
    BY <2>2, <2>3
  <2> HIDE DEF n
  <2>5. n # 0 /\ to + size * n >= end /\ to + size * n \in Nat /\ to + size * n > to
    <3>1. CASE size = 8
      BY <2>1, <2>4, <3>1, SMT
    <3>2. CASE size = 16
      BY <2>1, <2>4, <3>2, SMT
    <3>3. CASE size = 32
      BY <2>1, <2>4, <3>3, SMT
    <3> QED BY <3>1, <3>2, <3>3
  <2> QED BY <1>1, <2>4, <2>5 DEF n
<1> QED BY <1>2, <1>3, SMT

\* c is memory after none, one, ... and n words.
Copied(c, n, m, to, from, size) ==
  c = [k \in 0 .. n |-> IF k = 0 THEN m ELSE Word(c[k - 1], to + size * (k - 1), from + size * (k - 1), size)]

\* There are the memories a copy of any number of words goes through.
LEMMA CopiedExists ==
  ASSUME NEW n \in Nat, NEW m, NEW to, NEW from, NEW size
  PROVE  \E c : Copied(c, n, m, to, from, size)
<1> DEFINE Step(c, k) == Word(c[k - 1], to + size * (k - 1), from + size * (k - 1), size)
           Good == {i \in Nat : \E c : c = [k \in 0 .. i |-> IF k = 0 THEN m ELSE Step(c, k)]}
<1>1. 0 \in Good
  <2> DEFINE c == [k \in 0 .. 0 |-> m]
  <2>1. \A k \in 0 .. 0 : k = 0
    BY SMT
  <2>2. c = [k \in 0 .. 0 |-> IF k = 0 THEN m ELSE Step(c, k)]
    BY <2>1
  <2> QED BY <2>2
<1>2. ASSUME NEW i \in Good \cap Nat PROVE i + 1 \in Good
  <2>1. PICK c : c = [k \in 0 .. i |-> IF k = 0 THEN m ELSE Step(c, k)]
    OBVIOUS
  <2> DEFINE g == [k \in 0 .. i + 1 |-> IF k = i + 1 THEN Step(c, i + 1) ELSE c[k]]
  <2>2. ASSUME NEW k \in 0 .. i + 1 PROVE g[k] = IF k = 0 THEN m ELSE Step(g, k)
    <3>1. CASE k = i + 1
      <4>1. k # 0 /\ k - 1 = i /\ i \in 0 .. i + 1 /\ i # i + 1 /\ i + 1 - 1 = i
        BY <3>1, SMT
      <4>2. g[k] = Step(c, i + 1) /\ g[k - 1] = c[i]
        BY <3>1, <4>1
      <4> QED BY <3>1, <4>1, <4>2
    <3>2. CASE k # i + 1
      <4>1. k \in 0 .. i /\ (k # 0 => k - 1 \in 0 .. i + 1 /\ k - 1 # i + 1)
        BY <3>2, SMT
      <4>2. c[k] = IF k = 0 THEN m ELSE Step(c, k)
        BY <2>1, <4>1
      <4>3. g[k] = c[k] /\ (k # 0 => g[k - 1] = c[k - 1])
        BY <3>2, <4>1
      <4> QED BY <4>2, <4>3
    <3> QED BY <3>1, <3>2
  <2>3. g = [k \in 0 .. i + 1 |-> IF k = 0 THEN m ELSE Step(g, k)]
    <3>1. g = [k \in 0 .. i + 1 |-> g[k]]
      OBVIOUS
    <3> HIDE DEF g, Step
    <3> QED BY <2>2, <3>1
  <2> HIDE DEF g, Step
  <2>4. i + 1 \in Nat
    BY SMT
  <2> QED BY <2>3, <2>4
<1>3. Nat \subseteq Good
  <2> HIDE DEF Good
  <2> QED BY <1>1, <1>2, SetInduction
<1>4. n \in Good
  BY <1>3
<1> QED BY <1>4 DEF Copied

\* Words in a row repeat on, as far as they reach.
LEMMA WildRepeats ==
  ASSUME NEW cap \in Nat, NEW b, Buffer(b, cap), NEW op \in Nat, NEW offset \in Nat \ {0}, offset <= op,
         NEW to \in Nat, op <= to, NEW m, Repeats(m, b, op, offset, to), NEW D, Distance(D, op, offset, to),
         NEW end \in Nat, NEW size \in {8, 16, 32}, size <= D, NEW from, from = to - D
  PROVE  Repeats(Wild(m, to, from, end, size), b, op, offset, Reached(to, end, size))
<1> DEFINE n == Words(to, end, size)
           c == CHOOSE c : c = [k \in 0 .. n |-> IF k = 0 THEN m
                                                 ELSE Word(c[k - 1], to + size * (k - 1), from + size * (k - 1), size)]
<1>1. n \in Nat /\ Reached(to, end, size) = to + size * n
  BY WordsAtLeast, ZenonT(60)
<1>2. Wild(m, to, from, end, size) = c[n]
  BY DEF Wild
<1> HIDE DEF n
<1>3. Copied(c, n, m, to, from, size)
  <2>1. \E d : Copied(d, n, m, to, from, size)
    BY <1>1, CopiedExists
  <2> QED BY <2>1 DEF Copied
<1> HIDE DEF c
<1> DEFINE Good == {k \in Nat : k <= n => Repeats(c[k], b, op, offset, to + size * k)}
<1>4. 0 \in Good
  <2>1. 0 \in 0 .. n /\ to + size * 0 = to
    BY <1>1, SMT
  <2>2. c[0] = m
    BY <1>3, <2>1 DEF Copied
  <2> QED BY <2>1, <2>2
<1>5. ASSUME NEW k \in Good \cap Nat PROVE k + 1 \in Good
  <2>1. SUFFICES ASSUME k + 1 <= n PROVE Repeats(c[k + 1], b, op, offset, to + size * (k + 1))
    BY SMT
  <2> DEFINE at == to + size * k
  <2>2. /\ k + 1 \in 0 .. n /\ k + 1 # 0 /\ k + 1 - 1 = k /\ k <= n
        /\ at \in Nat /\ to <= at /\ op <= at /\ to + size * (k + 1) = at + size /\ size \in Nat
    <3>1. k + 1 \in 0 .. n /\ k + 1 # 0 /\ k + 1 - 1 = k /\ k <= n
      BY <1>1, <2>1, SMT
    <3>2. size * k \in Nat /\ size * (k + 1) = size * k + size
      BY SMT
    <3> QED BY <3>1, <3>2, SMT
  <2>3. c[k + 1] = Word(c[k], at, from + size * k, size)
    BY <1>3, <2>2 DEF Copied
  <2>4. Repeats(c[k], b, op, offset, at)
    BY <2>2
  <2>5. from + size * k = at - D
    <3>1. D \in Nat /\ size * k \in Int
      BY SMT DEF Distance
    <3> QED BY <3>1, SMT
  <2> HIDE DEF at
  <2>6. Distance(D, op, offset, at)
    <3>1. op - offset \in Int /\ to \in Int /\ at \in Int
      BY <2>2, SMT
    <3> QED BY <2>2, <3>1, DistanceOn
  <2>7. Repeats(Word(c[k], at, from + size * k, size), b, op, offset, at + size)
    BY <2>2, <2>4, <2>5, <2>6, WordRepeats
  <2> QED BY <2>2, <2>3, <2>7
<1>6. Nat \subseteq Good
  <2> HIDE DEF Good
  <2> QED BY <1>4, <1>5, SetInduction
<1>7. n \in Good /\ n <= n
  BY <1>1, <1>6, SMT
<1>8. Repeats(c[n], b, op, offset, to + size * n)
  BY <1>7
<1> QED BY <1>1, <1>2, <1>8

\* At a close offset: where the first eight bytes are read, and where the copy goes
\* on reading, are both some times the offset away.
LEMMA ShortDistances ==
  ASSUME NEW op \in Nat, NEW offset \in 1 .. 7, offset <= op
  PROVE  LET inc == inc32table[offset + 1]
             back == dec64table[offset + 1]
         IN  /\ inc \in Int /\ back \in Int
             /\ Distance(4 + offset - inc, op, offset, op + 4) /\ 4 + offset - inc >= 4
             /\ Distance(8 + offset - inc + back, op, offset, op + 8) /\ 8 + offset - inc + back >= 8
<1> DEFINE inc == inc32table[offset + 1]
           back == dec64table[offset + 1]
           far == 4 + offset - inc
           next == 8 + offset - inc + back
           OK(q, r) == /\ far = q * offset + offset /\ next = r * offset + offset
                       /\ inc \in Int /\ back \in Int
                       /\ far >= 4 /\ far <= 4 + offset /\ next >= 8 /\ next <= 8 + offset
<1>1. ASSUME offset = 1 PROVE \E q \in Nat, r \in Nat : OK(q, r)
  <2>1. inc = 1 /\ back = 0
    BY <1>1 DEF inc32table, dec64table
  <2>2. OK(3, 7)
    <3> HIDE DEF inc, back
    <3> QED BY <1>1, <2>1, SMT
  <2> HIDE DEF OK
  <2> QED BY <2>2
<1>2. ASSUME offset = 2 PROVE \E q \in Nat, r \in Nat : OK(q, r)
  <2>1. inc = 2 /\ back = 0
    BY <1>2 DEF inc32table, dec64table
  <2>2. OK(1, 3)
    <3> HIDE DEF inc, back
    <3> QED BY <1>2, <2>1, SMT
  <2> HIDE DEF OK
  <2> QED BY <2>2
<1>3. ASSUME offset = 3 PROVE \E q \in Nat, r \in Nat : OK(q, r)
  <2>1. inc = 1 /\ back = -1
    BY <1>3 DEF inc32table, dec64table
  <2>2. OK(1, 2)
    <3> HIDE DEF inc, back
    <3> QED BY <1>3, <2>1, SMT
  <2> HIDE DEF OK
  <2> QED BY <2>2
<1>4. ASSUME offset = 4 PROVE \E q \in Nat, r \in Nat : OK(q, r)
  <2>1. inc = 0 /\ back = -4
    BY <1>4 DEF inc32table, dec64table
  <2>2. OK(1, 1)
    <3> HIDE DEF inc, back
    <3> QED BY <1>4, <2>1, SMT
  <2> HIDE DEF OK
  <2> QED BY <2>2
<1>5. ASSUME offset = 5 PROVE \E q \in Nat, r \in Nat : OK(q, r)
  <2>1. inc = 4 /\ back = 1
    BY <1>5 DEF inc32table, dec64table
  <2>2. OK(0, 1)
    <3> HIDE DEF inc, back
    <3> QED BY <1>5, <2>1, SMT
  <2> HIDE DEF OK
  <2> QED BY <2>2
<1>6. ASSUME offset = 6 PROVE \E q \in Nat, r \in Nat : OK(q, r)
  <2>1. inc = 4 /\ back = 2
    BY <1>6 DEF inc32table, dec64table
  <2>2. OK(0, 1)
    <3> HIDE DEF inc, back
    <3> QED BY <1>6, <2>1, SMT
  <2> HIDE DEF OK
  <2> QED BY <2>2
<1>7. ASSUME offset = 7 PROVE \E q \in Nat, r \in Nat : OK(q, r)
  <2>1. inc = 4 /\ back = 3
    BY <1>7 DEF inc32table, dec64table
  <2>2. OK(0, 1)
    <3> HIDE DEF inc, back
    <3> QED BY <1>7, <2>1, SMT
  <2> HIDE DEF OK
  <2> QED BY <2>2
<1>8. offset \in {1, 2, 3, 4, 5, 6, 7}
  BY SMT
<1>9. PICK q \in Nat, r \in Nat : OK(q, r)
  BY <1>1, <1>2, <1>3, <1>4, <1>5, <1>6, <1>7, <1>8
<1> HIDE DEF inc, back, far, next
<1>10. far \in Nat \ {0} /\ next \in Nat \ {0} /\ (op + 4) - far >= op - offset /\ (op + 8) - next >= op - offset
  BY <1>9, SMT
<1>11. (\E i \in Nat : far = i * offset + offset) /\ (\E i \in Nat : next = i * offset + offset)
  BY <1>9
<1>12. Distance(far, op, offset, op + 4) /\ Distance(next, op, offset, op + 8)
  BY <1>10, <1>11 DEF Distance
<1> QED BY <1>9, <1>12 DEF inc, back, far, next

\* The offset is a distance.
LEMMA OffsetItself ==
  ASSUME NEW offset \in Nat \ {0}, NEW op \in Nat
  PROVE  Distance(offset, op, offset, op)
<1>1. offset = 0 * offset + offset /\ 0 \in Nat /\ op - offset >= op - offset
  BY SMT
<1> QED BY <1>1 DEF Distance

\* The first eight bytes of a match, and where the copy goes on.
LEMMA FirstWord ==
  ASSUME NEW cap \in Nat, NEW m, Buffer(m, cap), NEW op \in Nat, NEW offset \in Nat \ {0}, offset <= op
  PROVE  LET first == IF offset < 8 THEN ShortWord(m, op, offset) ELSE Word(m, op, op - offset, 8)
             from  == IF offset < 8 THEN AfterShortWord(op, offset) ELSE op - offset + 8
         IN  /\ Repeats(first, m, op, offset, op + 8)
             /\ \E D : Distance(D, op, offset, op + 8) /\ D >= 8 /\ from = (op + 8) - D
<1>1. Repeats(m, m, op, offset, op)
  BY RepeatsNothing
<1>2. Distance(offset, op, offset, op)
  BY OffsetItself
<1>3. CASE offset < 8
  <2> DEFINE inc == inc32table[offset + 1]
             back == dec64table[offset + 1]
             four == Bytewise(m, op, op - offset, 4)
  <2>1. offset \in 1 .. 7
    BY <1>3, SMT
  <2>2. /\ inc \in Int /\ back \in Int
        /\ Distance(4 + offset - inc, op, offset, op + 4) /\ 4 + offset - inc >= 4
        /\ Distance(8 + offset - inc + back, op, offset, op + 8) /\ 8 + offset - inc + back >= 8
    BY <2>1, ShortDistances
  <2>3. Repeats(four, m, op, offset, op + 4)
    <3>1. 4 \in Int /\ op <= op
      BY SMT
    <3> QED BY <1>1, <1>2, <3>1, BytewiseRepeats
  <2>4. ShortWord(m, op, offset) = Word(four, op + 4, op - offset + inc, 4)
    BY DEF ShortWord
  <2>5. AfterShortWord(op, offset) = op - offset + inc - back
    BY DEF AfterShortWord
  <2> HIDE DEF inc, back, four
  <2>6. Repeats(Word(four, op + 4, op - offset + inc, 4), m, op, offset, op + 4 + 4)
    <3>1. op + 4 \in Nat /\ op <= op + 4 /\ 4 \in Nat /\ 4 <= 4 + offset - inc /\ op - offset + inc = op + 4 - (4 + offset - inc)
      BY <2>2, SMT
    <3> HIDE DEF four
    <3> QED BY <2>2, <2>3, <3>1, WordRepeats
  <2>7. op + 4 + 4 = op + 8 /\ op - offset + inc - back = (op + 8) - (8 + offset - inc + back)
    BY <2>2, SMT
  <2> QED BY <1>3, <2>2, <2>4, <2>5, <2>6, <2>7
<1>4. CASE ~ (offset < 8)
  <2>1. 8 \in Nat /\ 8 <= offset /\ op <= op /\ op - offset + 8 = (op + 8) - offset /\ op <= op + 8 /\ op + 8 \in Int
    BY <1>4, SMT
  <2>2. Repeats(Word(m, op, op - offset, 8), m, op, offset, op + 8)
    BY <1>1, <1>2, <2>1, WordRepeats
  <2>3. Distance(offset, op, offset, op + 8)
    <3>1. op - offset \in Int /\ op \in Int
      BY SMT
    <3> QED BY <1>2, <2>1, <3>1, DistanceOn
  <2>4. offset >= 8
    BY <1>4, SMT
  <2> QED BY <1>4, <2>1, <2>2, <2>3, <2>4
<1> QED BY <1>3, <1>4

\* Patterns of one, two and four bytes are stored.
LEMMA StoredRepeats ==
  ASSUME NEW cap \in Nat, NEW m, Buffer(m, cap), NEW op \in Nat, NEW offset \in Nat \ {0}, offset <= op, NEW end \in Nat
  PROVE  Repeats(Stored8(m, op, end, offset), m, op, offset, Reached(op, end, 8))
<1> DEFINE R == Reached(op, end, 8)
           n == R - op
<1>1. R \in Nat
  BY WordsAtLeast
<1> HIDE DEF R
<1>2. n \in Int /\ op + n = R /\ op - (op - offset) = offset /\ op <= op
  BY <1>1, SMT
<1>3. Repeats(Bytewise(m, op, op - offset, n), m, op, offset, op + n)
  <2>1. Repeats(m, m, op, offset, op) /\ Distance(offset, op, offset, op)
    BY RepeatsNothing, OffsetItself
  <2> HIDE DEF n
  <2> QED BY <1>2, <2>1, BytewiseRepeats
<1>4. Stored8(m, op, end, offset) = Bytewise(m, op, op - offset, n)
  BY <1>2 DEF Stored8, Bytewise, R
<1> QED BY <1>2, <1>3, <1>4 DEF R

\* LZ4_memcpy_using_offset repeats, at every offset below 16.
LEMMA UsingOffsetRepeats ==
  ASSUME NEW cap \in Nat, NEW m, Buffer(m, cap), NEW op \in Nat, NEW offset \in Nat \ {0}, offset <= op, NEW end \in Nat
  PROVE  Repeats(LZ4_memcpy_using_offset(m, op, end, offset), m, op, offset, end)
<1>1. CASE offset \in {1, 2, 4}
  <2>1. Repeats(Stored8(m, op, end, offset), m, op, offset, Reached(op, end, 8))
    BY StoredRepeats
  <2>2. Reached(op, end, 8) \in Int /\ end <= Reached(op, end, 8) /\ end \in Int
    <3>1. Reached(op, end, 8) \in Nat /\ Reached(op, end, 8) >= end
      BY WordsAtLeast
    <3> QED BY <3>1, SMT
  <2>3. Repeats(Stored8(m, op, end, offset), m, op, offset, end)
    BY <2>1, <2>2, RepeatsLess
  <2> QED BY <1>1, <2>3 DEF LZ4_memcpy_using_offset
<1>2. CASE offset \notin {1, 2, 4}
  <2> DEFINE first == IF offset < 8 THEN ShortWord(m, op, offset) ELSE Word(m, op, op - offset, 8)
             from  == IF offset < 8 THEN AfterShortWord(op, offset) ELSE op - offset + 8
  <2>1. /\ Repeats(first, m, op, offset, op + 8)
        /\ \E D : Distance(D, op, offset, op + 8) /\ D >= 8 /\ from = (op + 8) - D
    BY FirstWord
  <2>2. LZ4_memcpy_using_offset(m, op, end, offset) = LZ4_wildCopy8(first, op + 8, from, end)
    <3>1. op + 8 - offset = op - offset + 8
      BY SMT
    <3> QED BY <1>2, <3>1 DEF LZ4_memcpy_using_offset, LZ4_memcpy_using_offset_base
  <2> HIDE DEF first, from
  <2>3. PICK D : Distance(D, op, offset, op + 8) /\ D >= 8 /\ from = (op + 8) - D
    BY <2>1
  <2> DEFINE to == op + 8
  <2>4. to \in Nat /\ op <= to /\ 8 \in {8, 16, 32} /\ 8 <= D
    BY <2>3, SMT DEF Distance
  <2>5. Repeats(Wild(first, to, from, end, 8), m, op, offset, Reached(to, end, 8))
    <3>1. Repeats(first, m, op, offset, to)
      BY <2>1
    <3>2. Distance(D, op, offset, to) /\ from = to - D
      BY <2>3
    <3> HIDE DEF to
    <3> QED BY <2>4, <3>1, <3>2, WildRepeats
  <2>6. Reached(to, end, 8) \in Int /\ end <= Reached(to, end, 8) /\ end \in Int
    <3> HIDE DEF to
    <3>1. Reached(to, end, 8) \in Nat /\ Reached(to, end, 8) >= end
      BY <2>4, WordsAtLeast
    <3> QED BY <3>1, SMT
  <2>7. Repeats(Wild(first, to, from, end, 8), m, op, offset, end)
    BY <2>5, <2>6, RepeatsLess
  <2> QED BY <2>2, <2>7 DEF LZ4_wildCopy8
<1> QED BY <1>1, <1>2

\* A copy that repeats what lies before it is right where the content does so too.
LEMMA RepeatsRight ==
  ASSUME NEW cap \in Nat, NEW b, Buffer(b, cap), NEW data, NEW op \in Nat, Correct(b, data, op),
         NEW offset \in Nat \ {0}, NEW to \in Nat, to <= cap, NEW m, Repeats(m, b, op, offset, to),
         \A p \in op .. to - 1 : data[p + 1] = ByteAt(data, p - offset)
  PROVE  Correct(m, data, to)
<1> DEFINE Good == {n \in Nat : n <= to => Correct(m, data, n)}
<1>1. 0 \in Good
  BY SMT DEF Correct
<1>2. ASSUME NEW n \in Good \cap Nat PROVE n + 1 \in Good
  <2>1. SUFFICES ASSUME n + 1 <= to PROVE Correct(m, data, n + 1)
    BY SMT
  <2>2. n <= to /\ n < to /\ n \in 0 .. cap - 1
    BY <2>1, SMT
  <2>3. Correct(m, data, n)
    BY <2>2
  <2>4. m[n] = data[n + 1]
    <3>1. CASE n < op
      <4>1. n \in 0 .. op - 1
        BY <3>1, SMT
      <4> QED BY <2>2, <3>1, <4>1 DEF Repeats, Buffer, Correct
    <3>2. CASE ~ (n < op)
      <4>1. n \in op .. to - 1 /\ op <= n
        BY <2>2, <3>2, SMT
      <4>2. m[n] = Byte(m, n - offset) /\ data[n + 1] = ByteAt(data, n - offset)
        BY <2>2, <4>1 DEF Repeats, Buffer
      <4>3. CASE n - offset < 0
        BY <4>2, <4>3 DEF Byte, ByteAt
      <4>4. CASE ~ (n - offset < 0)
        <5>1. n - offset \in 0 .. n - 1
          BY <4>4, SMT
        <5>2. m[n - offset] = data[n - offset + 1]
          BY <2>3, <5>1 DEF Correct
        <5> QED BY <4>2, <4>4, <5>2 DEF Byte, ByteAt
      <4> QED BY <4>3, <4>4
    <3> QED BY <3>1, <3>2
  <2>5. ASSUME NEW p \in 0 .. n + 1 - 1 PROVE m[p] = data[p + 1]
    <3>1. p = n \/ p \in 0 .. n - 1
      BY SMT
    <3> QED BY <2>3, <2>4, <3>1 DEF Correct
  <2> QED BY <2>5 DEF Correct
<1>3. Nat \subseteq Good
  <2> HIDE DEF Good
  <2> QED BY <1>1, <1>2, SetInduction
<1>4. to \in Good /\ to <= to
  BY <1>3, SMT
<1> QED BY <1>4

-----------------------------------------------------------------------------
(* What the ways of copying a match leave in memory.                         *)

AtCopy(d) == AtMatch(d) /\ Decoding(d) /\ Now(d).offset >= 1 /\ Buffer(d.mem, d.cap)

\* What a match of a whole block, with room for its content, has.
Fits(d) == ~ OffsetOutside(d) /\ d.op + Now(d).length + 5 <= d.cap

\* The match is there, unless the copy failed.
CopiesMatch(f, d) ==
  ~ Failed(f) => /\ Decoding(f) /\ f.op = d.op + Now(d).length
                 /\ Repeats(f.mem, d.mem, d.op, Now(d).offset, d.op + Now(d).length)

LEMMA CopyOf ==
  ASSUME NEW d, AtCopy(d)
  PROVE  /\ d.op \in Nat /\ d.cap \in Nat /\ d.dict \in Nat /\ Now(d).length \in Nat /\ Now(d).offset \in Nat \ {0}
         /\ Now(d).length >= 4 /\ Match(d) = d.op - Now(d).offset /\ Code(d) = Now(d).length - 4
         /\ IsDecoder(d) /\ Inside(d) /\ d.status = "decoding" /\ Buffer(d.mem, d.cap)
         /\ ~ OffsetOutside(d) /\ ~ InDictionary(d) => Now(d).offset <= d.op
<1>1. /\ d.op \in Nat /\ d.cap \in Nat /\ d.dict \in Nat /\ Now(d).length \in Nat /\ Now(d).offset \in Nat
      /\ Code(d) = Now(d).length - 4
  BY CodeOf DEF AtCopy, AtMatch
<1>2. Match(d) = d.op - Now(d).offset
  BY DEF Match
<1>3. Now(d).length >= 4 /\ Now(d).offset >= 1 /\ IsDecoder(d) /\ Inside(d) /\ d.status = "decoding" /\ Buffer(d.mem, d.cap)
  BY DEF AtCopy, AtMatch, AtOffset, AtWork, Decoding
<1>4. ~ OffsetOutside(d) /\ ~ InDictionary(d) => Now(d).offset <= d.op
  BY <1>1, <1>2, SMT DEF OffsetOutside, InDictionary
<1> QED BY <1>1, <1>2, <1>3, <1>4, SMT

\* What a match copied is what the next turn begins with.
LEMMA MatchedCopies ==
  ASSUME NEW d, AtCopy(d), NEW mem, NEW written, NEW to \in Int, d.op + Now(d).length <= to,
         Repeats(mem, d.mem, d.op, Now(d).offset, to)
  PROVE  CopiesMatch(Matched(d, mem, written), d) /\ ~ Failed(Matched(d, mem, written))
<1> DEFINE f == Matched(d, mem, written)
           n == d.op + Now(d).length
<1>1. /\ d.op \in Nat /\ d.cap \in Nat /\ Now(d).length \in Nat /\ IsDecoder(d) /\ d.status = "decoding"
      /\ Buffer(d.mem, d.cap)
  BY CopyOf
<1>2. f.status = d.status /\ f.op = n /\ f.mem = mem
  BY <1>1 DEF Matched, IsDecoder, DecoderFields
<1> HIDE DEF f
<1>3. Repeats(mem, d.mem, d.op, Now(d).offset, n)
  <2>1. n \in Int
    BY <1>1, SMT
  <2> HIDE DEF n
  <2> QED BY <1>1, <2>1, RepeatsLess DEF n
<1> QED BY <1>1, <1>2, <1>3 DEF CopiesMatch, Decoding, Failed, f

LEMMA ErrorCopies ==
  ASSUME NEW d, IsDecoder(d)
  PROVE  CopiesMatch(OutputError(d), d) /\ Failed(OutputError(d))
BY DEF IsDecoder, DecoderFields, OutputError, CopiesMatch, Failed

\* 18 bytes in three words are the match, when it does not overlap itself in eight.
LEMMA Match18Copies ==
  ASSUME NEW d, AtCopy(d), IsShort(d)
  PROVE  CopiesMatch(Match18(d), d) /\ ~ Failed(Match18(d))
<1> DEFINE op == d.op
           offset == Now(d).offset
           m == d.mem
           m1 == Word(m, op, Match(d), 8)
           m2 == Word(m1, op + 8, Match(d) + 8, 8)
           m3 == Word(m2, op + 16, Match(d) + 16, 2)
<1>1. /\ op \in Nat /\ d.cap \in Nat /\ Now(d).length \in Nat /\ offset \in Nat \ {0} /\ Buffer(m, d.cap)
      /\ Match(d) = op - offset /\ Code(d) = Now(d).length - 4
  BY CopyOf
<1>2. offset >= 8 /\ offset <= op /\ op + Now(d).length <= op + 18
  BY <1>1, SMT DEF IsShort, ML_MASK
<1>3. Match18(d) = Matched(d, m3, d.op + 18)
  BY DEF Match18
<1> HIDE DEF op, offset, m
<1>4. /\ op <= op /\ op + 8 \in Nat /\ op <= op + 8 /\ op + 16 \in Nat /\ op <= op + 16 /\ 8 \in Nat /\ 2 \in Nat
      /\ 8 <= offset /\ 2 <= offset /\ op - offset \in Int
      /\ Match(d) + 8 = (op + 8) - offset /\ Match(d) + 16 = (op + 16) - offset
      /\ op + 8 + 8 = op + 16 /\ op + 16 + 2 = op + 18 /\ op + 18 \in Int
  BY <1>1, <1>2, SMT
<1>5. Distance(offset, op, offset, op)
  BY <1>1, OffsetItself
<1>6. Distance(offset, op, offset, op + 8) /\ Distance(offset, op, offset, op + 16)
  BY <1>1, <1>4, <1>5, DistanceOn
<1>7. Repeats(m, m, op, offset, op)
  BY <1>1, RepeatsNothing
<1>8. Repeats(m1, m, op, offset, op + 8)
  BY <1>1, <1>2, <1>4, <1>5, <1>7, WordRepeats
<1> HIDE DEF m1
<1>9. Repeats(m2, m, op, offset, op + 16)
  <2>1. Repeats(m2, m, op, offset, op + 8 + 8)
    BY <1>1, <1>2, <1>4, <1>6, <1>8, WordRepeats
  <2> QED BY <1>4, <2>1
<1> HIDE DEF m2
<1>10. Repeats(m3, m, op, offset, op + 18)
  <2>1. Repeats(m3, m, op, offset, op + 16 + 2)
    BY <1>1, <1>2, <1>4, <1>6, <1>9, WordRepeats
  <2> QED BY <1>4, <2>1
<1> HIDE DEF m3
<1>11. d.op + Now(d).length <= op + 18 /\ Repeats(m3, d.mem, d.op, Now(d).offset, op + 18)
  BY <1>2, <1>10 DEF op, offset, m
<1> QED BY <1>3, <1>4, <1>11, MatchedCopies

\* A match that starts in the dictionary goes on where the destination begins.
LEMMA DictionaryMatchCopies ==
  ASSUME NEW d, AtCopy(d), InDictionary(d)
  PROVE  /\ CopiesMatch(DictionaryMatch(d), d)
         /\ Fits(d) => ~ Failed(DictionaryMatch(d))
<1> DEFINE op == d.op
           cap == d.cap
           offset == Now(d).offset
           length == Now(d).length
           copy == Least(length, - Match(d))
           m == d.mem
           m1 == [p \in DOMAIN m |-> IF p >= op /\ p < op + copy THEN Match(d) + p - op ELSE m[p]]
           m2 == Bytewise(m1, op + copy, 0, length - copy)
<1>1. /\ op \in Nat /\ cap \in Nat /\ length \in Nat /\ offset \in Nat \ {0} /\ DOMAIN m = 0 .. cap - 1
      /\ Match(d) = op - offset /\ IsDecoder(d)
  BY CopyOf DEF Buffer
<1>2. Match(d) < 0
  BY DEF InDictionary
<1>3. DictionaryMatch(d) = IF op + length > cap - LASTLITERALS THEN OutputError(d) ELSE Matched(d, m2, op + length)
  BY DEF DictionaryMatch
<1>4. Fits(d) => ~ (op + length > cap - LASTLITERALS)
  BY <1>1, SMT DEF Fits, LASTLITERALS
<1>5. /\ copy \in Nat /\ copy <= length /\ op + copy <= offset /\ op < offset
      /\ copy < length => op + copy = offset
  BY <1>1, <1>2, SMT DEF Least
<1> HIDE DEF copy
<1>6. DOMAIN m1 = 0 .. cap - 1 /\ DOMAIN m2 = 0 .. cap - 1
  BY <1>1 DEF Bytewise
<1>7. ASSUME NEW p \in 0 .. cap - 1 PROVE m1[p] = IF p >= op /\ p < op + copy THEN p - offset ELSE m[p]
  <2>1. Match(d) + p - op = p - offset
    BY <1>1, SMT
  <2> QED BY <1>1, <2>1
<1>8. ASSUME NEW p \in 0 .. cap - 1, p < op + copy PROVE m2[p] = m1[p]
  <2>1. ~ (p >= op + copy)
    BY <1>1, <1>5, <1>8, SMT
  <2> QED BY <1>6, <2>1 DEF Bytewise
<1>9. ASSUME NEW p \in 0 .. cap - 1, p >= op + copy, p < op + length
      PROVE  /\ op + copy = offset /\ p - offset \in Nat
             /\ m2[p] = m1[(p - offset) % offset] /\ (p - offset) % offset \in 0 .. cap - 1
  <2>1. op + copy = offset /\ p - offset \in Nat /\ op + copy + (length - copy) = op + length
    BY <1>1, <1>5, <1>9, SMT
  <2> DEFINE x == p - offset
             r == x % offset
  <2>2. r \in 0 .. offset - 1
    BY <1>1, <2>1, Remainder
  <2>3. (p - (op + copy)) % ((op + copy) - 0) = r
    <3>1. (op + copy) - 0 = offset /\ p - (op + copy) = x
      BY <1>1, <1>5, <1>9, <2>1, SMT
    <3> QED BY <3>1
  <2>4. m2[p] = At(m1, 0 + r)
    <3>1. p >= (op + copy) /\ p < (op + copy) + (length - copy)
      BY <1>1, <1>5, <1>9, SMT
    <3>2. m2[p] = At(m1, 0 + ((p - (op + copy)) % ((op + copy) - 0)))
      <4> DEFINE to == op + copy
                 n == length - copy
      <4>1. p >= to /\ p < to + n
        BY <3>1
      <4>2. p \in DOMAIN m1
        BY <1>6
      <4> HIDE DEF to, n, m1
      <4>3. Bytewise(m1, to, 0, n)[p] = At(m1, 0 + ((p - to) % (to - 0)))
        BY <4>1, <4>2, Zenon DEF Bytewise
      <4> QED BY <4>3 DEF to, n
    <3> QED BY <2>3, <3>2
  <2> HIDE DEF r
  <2>5. 0 + r = r /\ r \in 0 .. cap - 1
    BY <1>1, <1>9, <2>1, <2>2, SMT
  <2> QED BY <1>6, <2>1, <2>4, <2>5 DEF At, r
<1> HIDE DEF m1, m2
<1>10. ASSUME NEW p \in 0 .. cap - 1, p < op PROVE m2[p] = m[p]
  <2>1. p < op + copy /\ ~ (p >= op)
    BY <1>1, <1>5, <1>10, SMT
  <2> QED BY <1>7, <1>8, <2>1
<1>11. ASSUME NEW p \in 0 .. cap - 1, op <= p, p < op + length PROVE m2[p] = Byte(m2, p - offset)
  <2>1. CASE p < op + copy
    <3>1. m2[p] = p - offset
      BY <1>1, <1>5, <1>7, <1>8, <1>11, <2>1, SMT
    <3>2. p - offset < 0
      BY <1>1, <1>5, <2>1, SMT
    <3> QED BY <3>1, <3>2 DEF Byte
  <2>2. CASE p >= op + copy
    <3> DEFINE x == p - offset
               r == x % offset
    <3>1. op + copy = offset /\ x \in Nat /\ m2[p] = m1[r] /\ r \in 0 .. cap - 1
      BY <1>9, <1>11, <2>2
    <3>2. Byte(m2, x) = m2[x]
      BY <3>1, SMT DEF Byte
    <3>3. r \in 0 .. offset - 1 /\ (x < offset => r = x)
      BY <1>1, <3>1, Remainder
    <3>4. x \in 0 .. cap - 1 /\ x < op + length
      BY <1>1, <1>11, <3>1, SMT
    <3>5. CASE x < offset
      BY <1>8, <3>1, <3>2, <3>3, <3>4, <3>5
    <3>6. CASE x >= offset
      <4>1. m2[x] = m1[(x - offset) % offset]
        BY <1>9, <3>1, <3>4, <3>6
      <4>2. (x - offset) % offset = IF r >= offset THEN r - offset ELSE r - offset + offset
        <5>1. offset \in 1 .. offset
          BY <1>1, SMT
        <5> HIDE DEF x
        <5> QED BY <1>1, <3>1, <3>6, <5>1, RemainderBack
      <4> HIDE DEF r
      <4>3. (x - offset) % offset = r
        BY <1>1, <3>3, <4>2, SMT
      <4> QED BY <3>1, <3>2, <4>1, <4>3
    <3> QED BY <1>1, <3>1, <3>5, <3>6, SMT
  <2> QED BY <1>1, <1>5, <2>1, <2>2, SMT
<1>12. Repeats(m2, d.mem, d.op, Now(d).offset, d.op + Now(d).length)
  BY <1>1, <1>6, <1>10, <1>11 DEF Repeats
<1>13. op + length \in Int /\ op + length <= op + length
  BY <1>1, SMT
<1>14. \A w : CopiesMatch(Matched(d, m2, w), d) /\ ~ Failed(Matched(d, m2, w))
  BY <1>12, <1>13, MatchedCopies
<1>15. CopiesMatch(OutputError(d), d)
  BY <1>1, ErrorCopies
<1> QED BY <1>3, <1>4, <1>14, <1>15

LEMMA FailedCopies ==
  ASSUME NEW d, NEW g, DOMAIN g = DecoderFields
  PROVE  CopiesMatch(OutputError(g), d) /\ Failed(OutputError(g))
BY DEF DecoderFields, OutputError, CopiesMatch, Failed

\* Words as far as they fit and bytes behind them are the match.
LEMMA MatchNearEndCopies ==
  ASSUME NEW d, AtCopy(d), Now(d).offset <= d.op, d.op + 12 <= d.cap,
         NEW mem, Repeats(mem, d.mem, d.op, Now(d).offset, d.op + 8),
         NEW from, NEW D, Distance(D, d.op, Now(d).offset, d.op + 8), D >= 8, from = (d.op + 8) - D
  PROVE  /\ CopiesMatch(MatchNearEnd(d, mem, from), d)
         /\ Fits(d) => ~ Failed(MatchNearEnd(d, mem, from))
<1> DEFINE op == d.op
           cap == d.cap
           offset == Now(d).offset
           b == d.mem
           to == op + 8
           end == op + Now(d).length
           limit == cap - 7
           start == Greater(to, limit)
           words == IF to < limit THEN LZ4_wildCopy8(mem, to, from, limit) ELSE mem
           at == from + start - to
           last == Bytewise(words, start, at, end - start)
           reach == Greater(end, IF to < limit THEN Reached(to, limit, 8) ELSE to)
           wrong == [d EXCEPT !.whigh = Greater(@, to)]
<1>1. /\ op \in Nat /\ cap \in Nat /\ offset \in Nat \ {0} /\ Now(d).length \in Nat /\ IsDecoder(d)
      /\ DOMAIN d = DecoderFields /\ Buffer(b, cap)
  BY CopyOf DEF IsDecoder
<1>2. limit = cap - (WILDCOPYLENGTH - 1)
  BY <1>1, SMT DEF WILDCOPYLENGTH
<1>3. MatchNearEnd(d, mem, from) = IF end > cap - LASTLITERALS THEN OutputError(wrong) ELSE Matched(d, last, reach)
  BY <1>2 DEF MatchNearEnd
<1>4. Fits(d) => ~ (end > cap - LASTLITERALS)
  BY <1>1, SMT DEF Fits, LASTLITERALS
<1>5. DOMAIN wrong = DecoderFields
  BY <1>1
<1>6. CopiesMatch(OutputError(wrong), d)
  BY <1>5, FailedCopies
<1>7. /\ to \in Nat /\ op <= to /\ limit \in Nat /\ end \in Nat /\ offset <= op /\ D \in Nat
      /\ op - offset \in Int /\ 8 \in {8, 16, 32}
  BY <1>1, SMT DEF Distance
<1>8. Repeats(mem, b, op, offset, to) /\ Distance(D, op, offset, to) /\ 8 <= D /\ from = to - D
  <2>1. D >= 8 <=> 8 <= D
    BY <1>7, SMT
  <2> QED BY <2>1
<1> HIDE DEF op, cap, offset, b, to, end, limit, wrong
<1>9. /\ start \in Nat /\ to <= start /\ limit <= start /\ at = start - D /\ op <= start
      /\ (to < limit => start = limit) /\ (~ (to < limit) => start = to)
      /\ end - start \in Int /\ start + (end - start) = end
  <2>1. /\ start \in Nat /\ to <= start /\ limit <= start /\ op <= start
        /\ (to < limit => start = limit) /\ (~ (to < limit) => start = to)
    BY <1>1, <1>7, SMT DEF Greater, op
  <2> HIDE DEF start
  <2> QED BY <1>7, <1>8, <2>1, SMT
<1>10. Repeats(words, b, op, offset, start)
  <2>1. CASE to < limit
    <3>1. Repeats(Wild(mem, to, from, limit, 8), b, op, offset, Reached(to, limit, 8))
      BY <1>1, <1>7, <1>8, WildRepeats
    <3>2. Reached(to, limit, 8) \in Nat /\ Reached(to, limit, 8) >= limit
      BY <1>7, WordsAtLeast
    <3>3. Reached(to, limit, 8) \in Int /\ limit \in Int /\ limit <= Reached(to, limit, 8)
      BY <1>7, <3>2, SMT
    <3>4. Repeats(Wild(mem, to, from, limit, 8), b, op, offset, limit)
      BY <1>1, <3>1, <3>3, RepeatsLess
    <3> QED BY <1>9, <2>1, <3>4 DEF LZ4_wildCopy8
  <2>2. CASE ~ (to < limit)
    BY <1>8, <1>9, <2>2
  <2> QED BY <2>1, <2>2
<1>11. Distance(D, op, offset, start)
  <2>1. start \in Int /\ to \in Int
    BY <1>7, <1>9, SMT
  <2> QED BY <1>7, <1>8, <1>9, <2>1, DistanceOn
<1> HIDE DEF words, start, at
<1>12. Repeats(last, b, op, offset, start + (end - start))
  BY <1>1, <1>7, <1>9, <1>10, <1>11, BytewiseRepeats
<1> HIDE DEF last
<1>13. end \in Int /\ end <= end /\ Repeats(last, b, op, offset, end)
  BY <1>7, <1>9, <1>12, SMT
<1>14. \A w : CopiesMatch(Matched(d, last, w), d) /\ ~ Failed(Matched(d, last, w))
  BY <1>13, MatchedCopies DEF op, end, offset, b
<1> QED BY <1>3, <1>4, <1>6, <1>14

\* Every way of safe_match_copy is the match.
LEMMA SafeMatchCopies ==
  ASSUME NEW d, AtCopy(d), d.op + 12 <= d.cap
  PROVE  /\ CopiesMatch(SafeMatch(d), d)
         /\ Fits(d) => ~ Failed(SafeMatch(d))
<1> DEFINE op == d.op
           cap == d.cap
           offset == Now(d).offset
           m == d.mem
           end == op + Now(d).length
           first == IF offset < 8 THEN ShortWord(m, op, offset) ELSE Word(m, op, op - offset, 8)
           from  == IF offset < 8 THEN AfterShortWord(op, offset) ELSE op - offset + 8
           second == Word(first, op + 8, from, 8)
           more == LZ4_wildCopy8(second, op + 16, from + 8, end)
<1>1. /\ op \in Nat /\ cap \in Nat /\ offset \in Nat \ {0} /\ Now(d).length \in Nat /\ IsDecoder(d)
      /\ DOMAIN d = DecoderFields /\ Buffer(m, cap) /\ Match(d) = op - offset
      /\ ~ OffsetOutside(d) /\ ~ InDictionary(d) => offset <= op
  BY CopyOf DEF IsDecoder
<1>2. SafeMatch(d) = IF OffsetOutside(d) THEN OutputError(d)
                     ELSE IF InDictionary(d) THEN DictionaryMatch(d)
                     ELSE IF end > cap - MATCH_SAFEGUARD_DISTANCE THEN MatchNearEnd(d, first, from)
                     ELSE IF Now(d).length > 16 THEN Matched(d, more, Reached(op + 16, end, 8))
                     ELSE Matched(d, second, op + 16)
  BY <1>1 DEF SafeMatch
<1>3. CASE OffsetOutside(d)
  BY <1>1, <1>2, <1>3, FailedCopies DEF Fits
<1>4. CASE ~ OffsetOutside(d) /\ InDictionary(d)
  BY <1>2, <1>4, DictionaryMatchCopies
<1>5. CASE ~ OffsetOutside(d) /\ ~ InDictionary(d)
  <2>1. offset <= op
    BY <1>1, <1>5
  <2>2. /\ Repeats(first, m, op, offset, op + 8)
        /\ \E D : Distance(D, op, offset, op + 8) /\ D >= 8 /\ from = (op + 8) - D
    BY <1>1, <2>1, FirstWord
  <2>3. PICK D : Distance(D, op, offset, op + 8) /\ D >= 8 /\ from = (op + 8) - D
    BY <2>2
  <2> HIDE DEF first, from
  <2>4. CASE end > cap - MATCH_SAFEGUARD_DISTANCE
    <3>1. /\ CopiesMatch(MatchNearEnd(d, first, from), d)
          /\ Fits(d) => ~ Failed(MatchNearEnd(d, first, from))
      BY <2>1, <2>2, <2>3, MatchNearEndCopies
    <3> QED BY <1>2, <1>5, <2>4, <3>1
  <2>5. CASE ~ (end > cap - MATCH_SAFEGUARD_DISTANCE)
    <3> DEFINE to == op + 8
               far == op + 16
    <3>1. /\ D \in Nat /\ to \in Nat /\ far \in Nat /\ op <= to /\ op <= far /\ to <= far /\ to + 8 = far /\ 8 \in Nat /\ 8 <= D
          /\ from + 8 = far - D /\ end \in Nat /\ op - offset \in Int /\ 8 \in {8, 16, 32} /\ offset <= op
      <4>1. D \in Nat
        BY <2>3 DEF Distance
      <4> HIDE DEF op, offset, m, cap
      <4> QED BY <1>1, <2>1, <2>3, <4>1, SMT
    <3>2. Repeats(first, m, op, offset, to) /\ Distance(D, op, offset, to) /\ from = to - D
      BY <2>2, <2>3
    <3>3. second = Word(first, to, from, 8)
      OBVIOUS
    <3>4. more = Wild(second, far, from + 8, end, 8)
      BY DEF LZ4_wildCopy8
    <3>5. op + Now(d).length = end
      OBVIOUS
    <3> HIDE DEF to, second, more, op, offset, m, cap, end
    <3>6. Repeats(second, m, op, offset, to + 8)
      BY <1>1, <3>1, <3>2, <3>3, WordRepeats
    <3>7. Repeats(second, m, op, offset, far)
      BY <3>1, <3>6
    <3>8. Distance(D, op, offset, far)
      <4>1. far \in Int
        BY <3>1, SMT
      <4> QED BY <3>1, <3>2, <4>1, DistanceOn
    <3> HIDE DEF far
    <3>9. CASE Now(d).length > 16
      <4>1. Repeats(more, m, op, offset, Reached(far, end, 8))
        BY <1>1, <3>1, <3>4, <3>7, <3>8, WildRepeats
      <4>2. Reached(far, end, 8) \in Nat /\ Reached(far, end, 8) >= end
        BY <3>1, WordsAtLeast
      <4>3. Reached(far, end, 8) \in Int /\ end <= Reached(far, end, 8)
        BY <3>1, <4>2, SMT
      <4>4. \A w : CopiesMatch(Matched(d, more, w), d) /\ ~ Failed(Matched(d, more, w))
        BY <4>1, <4>3, MatchedCopies DEF op, end, offset, m
      <4> QED BY <1>2, <1>5, <2>5, <3>9, <4>4
    <3>10. CASE ~ (Now(d).length > 16)
      <4>1. far \in Int /\ end <= far
        BY <1>1, <3>10, SMT DEF far, end
      <4>2. \A w : CopiesMatch(Matched(d, second, w), d) /\ ~ Failed(Matched(d, second, w))
        BY <3>7, <4>1, MatchedCopies DEF op, end, offset, m
      <4> QED BY <1>2, <1>5, <2>5, <3>10, <4>2
    <3> QED BY <3>9, <3>10
  <2> QED BY <2>4, <2>5
<1> QED BY <1>3, <1>4, <1>5

\* Every way of the fast loop is the match.
LEMMA FastCopyCopies ==
  ASSUME NEW d, AtCopy(d)
  PROVE  /\ CopiesMatch(FastCopy(d), d)
         /\ Fits(d) => ~ Failed(FastCopy(d))
<1> DEFINE op == d.op
           cap == d.cap
           offset == Now(d).offset
           m == d.mem
           end == op + Now(d).length
           close == LZ4_memcpy_using_offset(m, op, end, offset)
           reach == Reached(op, end, 32)
           far == LZ4_wildCopy32(m, op, Match(d), end)
<1>1. /\ op \in Nat /\ cap \in Nat /\ offset \in Nat \ {0} /\ Now(d).length \in Nat /\ IsDecoder(d)
      /\ DOMAIN d = DecoderFields /\ Buffer(m, cap) /\ Match(d) = op - offset
      /\ ~ OffsetOutside(d) /\ ~ InDictionary(d) => offset <= op
  BY CopyOf DEF IsDecoder
<1>2. FastCopy(d) = IF OffsetOutside(d) THEN OutputError(d)
                    ELSE IF InDictionary(d) THEN DictionaryMatch(d)
                    ELSE IF offset < 16 THEN Matched(d, close, UsingOffsetReaches(op, end, offset))
                    ELSE Matched(d, far, reach)
  BY DEF FastCopy
<1>3. CASE OffsetOutside(d)
  BY <1>1, <1>2, <1>3, FailedCopies DEF Fits
<1>4. CASE ~ OffsetOutside(d) /\ InDictionary(d)
  BY <1>2, <1>4, DictionaryMatchCopies
<1>5. CASE ~ OffsetOutside(d) /\ ~ InDictionary(d)
  <2>1. /\ offset <= op /\ end \in Nat /\ end \in Int /\ end <= end /\ op <= op
        /\ 16 \in {8, 16, 32} /\ 32 \in {8, 16, 32}
    BY <1>1, <1>5, SMT
  <2>2. op + Now(d).length = end /\ far = Wild(m, op, op - offset, reach, 16)
    BY <1>1 DEF LZ4_wildCopy32
  <2> HIDE DEF op, cap, offset, m, end, far
  <2>3. CASE offset < 16
    <3>1. Repeats(close, m, op, offset, end)
      BY <1>1, <2>1, UsingOffsetRepeats
    <3> HIDE DEF close
    <3>2. \A w : CopiesMatch(Matched(d, close, w), d) /\ ~ Failed(Matched(d, close, w))
      BY <2>1, <3>1, MatchedCopies DEF op, end, offset, m
    <3> QED BY <1>2, <1>5, <2>3, <3>2
  <2>4. CASE ~ (offset < 16)
    <3>1. reach \in Nat /\ reach >= end
      BY <1>1, <2>1, WordsAtLeast
    <3> HIDE DEF reach
    <3>2. 16 <= offset
      BY <1>1, <2>4, SMT
    <3>3. Repeats(m, m, op, offset, op) /\ Distance(offset, op, offset, op)
      BY <1>1, RepeatsNothing, OffsetItself
    <3>4. Repeats(far, m, op, offset, Reached(op, reach, 16))
      BY <1>1, <2>1, <2>2, <3>1, <3>2, <3>3, WildRepeats
    <3>5. Reached(op, reach, 16) \in Nat /\ Reached(op, reach, 16) >= reach
      BY <1>1, <2>1, <3>1, WordsAtLeast
    <3>6. Reached(op, reach, 16) \in Int /\ end <= Reached(op, reach, 16)
      BY <2>1, <3>1, <3>5, SMT
    <3>7. \A w : CopiesMatch(Matched(d, far, w), d) /\ ~ Failed(Matched(d, far, w))
      BY <3>4, <3>6, MatchedCopies DEF op, end, offset, m
    <3> QED BY <1>2, <1>5, <2>4, <3>7
  <2> QED BY <2>3, <2>4
<1> QED BY <1>3, <1>4, <1>5

-----------------------------------------------------------------------------
(* What does not touch the output, and the ways to a match.                  *)

Keeps(v, d) == Within(v, d) /\ v.mem = d.mem /\ v.op = d.op

LEMMA Keeping ==
  ASSUME NEW d, NEW v, Keeps(v, d)
  PROVE  /\ Now(v) = Now(d) /\ Match(v) = Match(d) /\ LengthSize(v) = LengthSize(d)
         /\ Fits(v) <=> Fits(d)
         /\ OffsetOutside(v) <=> OffsetOutside(d)
         /\ \A f : CopiesMatch(f, v) => CopiesMatch(f, d)
         /\ Buffer(d.mem, d.cap) => Buffer(v.mem, v.cap)
         /\ Decoding(d) => Decoding(v)
<1>1. Now(v) = Now(d) /\ v.cap = d.cap /\ v.dict = d.dict /\ (Decoding(d) => Decoding(v))
  BY WithinAgain DEF Keeps
<1>2. Match(v) = Match(d) /\ LengthSize(v) = LengthSize(d)
  BY <1>1 DEF Keeps, Match, LengthSize
<1>3. OffsetOutside(v) <=> OffsetOutside(d)
  BY <1>1, <1>2 DEF OffsetOutside
<1>4. Fits(v) <=> Fits(d)
  BY <1>1, <1>3 DEF Keeps, Fits
<1>5. \A f : CopiesMatch(f, v) => CopiesMatch(f, d)
  BY <1>1 DEF Keeps, CopiesMatch
<1> QED BY <1>1, <1>2, <1>3, <1>4, <1>5 DEF Keeps

LEMMA ReadToKeeps ==
  ASSUME NEW d, IsDecoder(d), Inside(d), NEW n \in Nat, d.ip + n <= d.iend
  PROVE  Keeps(ReadTo(d, n), d)
<1>1. Within(ReadTo(d, n), d) /\ ReadTo(d, n).op = d.op
  BY ReadToWithin
<1>2. ReadTo(d, n).mem = d.mem
  BY DEF ReadTo, IsDecoder, DecoderFields
<1> QED BY <1>1, <1>2 DEF Keeps

LEMMA SafeLoopKeeps ==
  ASSUME NEW d, IsDecoder(d), Inside(d)
  PROVE  Keeps(SafeLoop(d), d)
<1>1. Within(SafeLoop(d), d) /\ SafeLoop(d).op = d.op
  BY SafeLoopWithin
<1>2. SafeLoop(d).mem = d.mem
  BY DEF SafeLoop, IsDecoder, DecoderFields
<1> QED BY <1>1, <1>2 DEF Keeps

\* A length that ends before the limit is read.
LEMMA VariableLengthKeeps ==
  ASSUME NEW d, IsDecoder(d), Inside(d), NEW length \in Nat, NEW limit \in Int, limit < d.iend,
         NEW initialCheck \in BOOLEAN
  PROVE  LET f == read_variable_length(d, length, limit, initialCheck)
         IN  /\ ~ Failed(f) => f.mem = d.mem
             /\ ~ Failed(d) /\ (initialCheck => d.ip < limit) /\ d.ip + LengthBytes(length, 15) <= limit => ~ Failed(f)
<1> DEFINE f == read_variable_length(d, length, limit, initialCheck)
           bytes == LengthBytes(length, 15)
           g == [d EXCEPT !.rhigh = Greater(@, Least(d.ip + bytes, Greater(limit, d.ip) + 1))]
<1>1. bytes \in Nat /\ d.ip \in Nat /\ d.iend \in Nat
  BY LengthBytesBound DEF IsDecoder
<1>2. f = IF initialCheck /\ d.ip >= limit THEN OutputError(d)
          ELSE IF d.ip + bytes > limit THEN OutputError(g) ELSE ReadTo(d, bytes)
  BY DEF read_variable_length, RUN_MASK
<1>3. DOMAIN d = DecoderFields /\ DOMAIN g = DecoderFields
  BY DEF IsDecoder
<1>4. Failed(OutputError(d)) /\ Failed(OutputError(g))
  BY <1>3, FailedCopies
<1>5. ReadTo(d, bytes).mem = d.mem /\ ReadTo(d, bytes).status = d.status
  BY <1>3 DEF ReadTo, DecoderFields
<1> HIDE DEF f, bytes, g
<1>6. ASSUME initialCheck => d.ip < limit, d.ip + bytes <= limit
      PROVE  ~ (initialCheck /\ d.ip >= limit) /\ ~ (d.ip + bytes > limit)
  BY <1>1, <1>6, SMT
<1>7. ~ Failed(f) => f.mem = d.mem
  BY <1>2, <1>4, <1>5
<1>8. ~ Failed(d) /\ (initialCheck => d.ip < limit) /\ d.ip + bytes <= limit => ~ Failed(f)
  <2> SUFFICES ASSUME ~ Failed(d), initialCheck => d.ip < limit, d.ip + bytes <= limit PROVE ~ Failed(f)
    OBVIOUS
  <2>1. f = ReadTo(d, bytes)
    BY <1>2, <1>6
  <2> QED BY <1>5, <2>1 DEF Failed
<1> QED BY <1>7, <1>8 DEF f, bytes

\* The match's length, when the block goes on behind it.
GoesOn(d) == d.ip + LengthSize(d) + 6 <= d.iend

LEMMA MatchLengthKeeps ==
  ASSUME NEW d, AtOffset(d), Decoding(d)
  PROVE  LET v == IF Code(d) < ML_MASK THEN d
                  ELSE read_variable_length(d, Code(d), d.iend - LASTLITERALS + 1, FALSE)
         IN  /\ ~ Failed(v) => Keeps(v, d) /\ AtOffset(v)
             /\ GoesOn(d) => ~ Failed(v)
<1> DEFINE g == read_variable_length(d, Code(d), d.iend - LASTLITERALS + 1, FALSE)
           v == IF Code(d) < ML_MASK THEN d ELSE g
<1>1. /\ Code(d) = Now(d).length - 4 /\ Code(d) \in Nat /\ d.op \in Nat /\ d.ip \in Nat /\ d.iend \in Nat
      /\ IsDecoder(d) /\ Inside(d)
  BY CodeOf DEF AtOffset, AtWork
<1>2. ~ Failed(v) => Within(v, d) /\ v.op = d.op /\ AtOffset(v)
  BY MatchLength
<1>3. ~ Failed(d)
  BY DEF Decoding, Failed
<1>4. CASE Code(d) < ML_MASK
  BY <1>2, <1>3, <1>4 DEF Keeps
<1>5. CASE ~ (Code(d) < ML_MASK)
  <2> DEFINE limit == d.iend - LASTLITERALS + 1
  <2>1. limit = d.iend - 4 /\ limit \in Int /\ limit < d.iend /\ FALSE \in BOOLEAN
    BY <1>1, SMT DEF LASTLITERALS
  <2>2. v = read_variable_length(d, Code(d), limit, FALSE)
    BY <1>5
  <2> HIDE DEF v
  <2>3. LengthSize(d) = LengthBytes(Code(d), 15) /\ LengthSize(d) \in Nat
    BY <1>1, LengthBytesBound DEF LengthSize
  <2>4. GoesOn(d) => d.ip + LengthBytes(Code(d), 15) <= limit
    <3> HIDE DEF limit
    <3> QED BY <1>1, <2>1, <2>3, SMT DEF GoesOn
  <2> HIDE DEF limit
  <2>5. /\ ~ Failed(v) => v.mem = d.mem
        /\ d.ip + LengthBytes(Code(d), 15) <= limit => ~ Failed(v)
    BY <1>1, <1>3, <2>1, <2>2, VariableLengthKeeps
  <2> QED BY <1>2, <2>4, <2>5 DEF Keeps, v
<1> QED BY <1>4, <1>5

\* _copy_match reads the length and copies.
LEMMA CopyMatchCopies ==
  ASSUME NEW d, AtCopy(d), d.op + 12 <= d.cap
  PROVE  /\ CopiesMatch(CopyMatch(d), d)
         /\ Fits(d) /\ GoesOn(d) => ~ Failed(CopyMatch(d))
<1> DEFINE v == IF Code(d) < ML_MASK THEN d
                ELSE read_variable_length(d, Code(d), d.iend - LASTLITERALS + 1, FALSE)
<1>1. /\ ~ Failed(v) => Keeps(v, d) /\ AtOffset(v)
      /\ GoesOn(d) => ~ Failed(v)
  BY MatchLengthKeeps DEF AtCopy, AtMatch
<1>2. CopyMatch(d) = IF Failed(v) THEN v ELSE SafeMatch(v)
  BY DEF CopyMatch, Failed
<1> HIDE DEF v
<1>3. CASE Failed(v)
  BY <1>1, <1>2, <1>3 DEF CopiesMatch
<1>4. CASE ~ Failed(v)
  <2>1. Keeps(v, d) /\ AtOffset(v) /\ Within(v, d) /\ v.op = d.op /\ v.cap = d.cap
    BY <1>1, <1>4 DEF Keeps, Within, SameBlock
  <2>2. /\ Now(v) = Now(d) /\ (Fits(v) <=> Fits(d)) /\ Buffer(v.mem, v.cap) /\ Decoding(v)
        /\ \A f : CopiesMatch(f, v) => CopiesMatch(f, d)
    BY <2>1, Keeping DEF AtCopy
  <2>3. AtMatch(v)
    BY <2>1, <2>2 DEF AtCopy, AtMatch, RoomBehind, Within
  <2>4. AtCopy(v) /\ v.op + 12 <= v.cap
    BY <2>1, <2>2, <2>3 DEF AtCopy
  <2>5. CopiesMatch(SafeMatch(v), v) /\ (Fits(v) => ~ Failed(SafeMatch(v)))
    BY <2>4, SafeMatchCopies
  <2> QED BY <1>2, <1>4, <2>2, <2>5
<1> QED BY <1>3, <1>4

\* So does the fast loop, in it or leaving it.
LEMMA FastMatchCopies ==
  ASSUME NEW d, AtOffset(d), Decoding(d), Now(d).offset >= 1, Buffer(d.mem, d.cap), d.op + 12 <= d.cap
  PROVE  /\ CopiesMatch(FastMatch(d), d)
         /\ Fits(d) /\ GoesOn(d) => ~ Failed(FastMatch(d))
<1> DEFINE v == IF Code(d) < ML_MASK THEN d
                ELSE read_variable_length(d, Code(d), d.iend - LASTLITERALS + 1, FALSE)
           outside == Code(d) >= ML_MASK /\ OffsetOutside(d)
<1>1. /\ ~ Failed(v) => Keeps(v, d) /\ AtOffset(v)
      /\ GoesOn(d) => ~ Failed(v)
      /\ Ends(v, d) \/ Within(v, d)
  BY MatchLengthKeeps, MatchLength
<1>2. FastMatch(d) = IF Failed(v) \/ outside THEN OutputError(v)
                     ELSE IF MatchLeavesLoop(v) THEN SafeMatch(SafeLoop(v))
                     ELSE IF IsShort(v) THEN Match18(v) ELSE FastCopy(v)
  BY DEF FastMatch, Failed
<1>3. Fits(d) => ~ outside
  BY DEF Fits
<1> HIDE DEF v, outside
<1>4. CASE Failed(v) \/ outside
  <2>1. DOMAIN v = DecoderFields
    BY <1>1 DEF Ends, Within, SameBlock
  <2>2. CopiesMatch(OutputError(v), d)
    BY <2>1, FailedCopies
  <2> QED BY <1>1, <1>2, <1>3, <1>4, <2>2
<1>5. CASE ~ (Failed(v) \/ outside)
  <2>1. /\ Keeps(v, d) /\ AtOffset(v) /\ Within(v, d) /\ v.op = d.op /\ v.cap = d.cap
        /\ IsDecoder(v) /\ Inside(v)
    BY <1>1, <1>5 DEF Keeps, Within, SameBlock
  <2>2. /\ Now(v) = Now(d) /\ (Fits(v) <=> Fits(d)) /\ Buffer(v.mem, v.cap) /\ Decoding(v)
        /\ \A f : CopiesMatch(f, v) => CopiesMatch(f, d)
    BY <2>1, Keeping
  <2>3. CASE MatchLeavesLoop(v)
    <3> DEFINE x == SafeLoop(v)
    <3>1. Keeps(x, v) /\ Within(x, v) /\ x.ip = v.ip /\ x.op = v.op /\ ~ x.fast
      BY <2>1, SafeLoopKeeps, SafeLoopWithin
    <3> HIDE DEF x
    <3>2. /\ Now(x) = Now(v) /\ (Fits(x) <=> Fits(v)) /\ Buffer(x.mem, x.cap) /\ Decoding(x)
          /\ \A f : CopiesMatch(f, x) => CopiesMatch(f, v)
      BY <2>2, <3>1, Keeping
    <3>3. AtMatch(x)
      <4>1. AtWork(x) /\ Now(x) = Now(v) /\ x.iend = v.iend
        BY <2>1, <3>1, WithinAgain DEF AtOffset
      <4> QED
        BY <2>1, <3>1, <4>1 DEF AtMatch, AtOffset, RoomBehind
    <3>4. AtCopy(x) /\ x.op + 12 <= x.cap
      BY <2>1, <2>2, <3>1, <3>2, <3>3 DEF AtCopy, Within, SameBlock
    <3>5. CopiesMatch(SafeMatch(x), x) /\ (Fits(x) => ~ Failed(SafeMatch(x)))
      BY <3>4, SafeMatchCopies
    <3> QED BY <1>2, <1>5, <2>2, <2>3, <3>2, <3>5 DEF x
  <2>4. CASE ~ MatchLeavesLoop(v)
    <3>1. AtMatch(v)
      BY <2>1, <2>4, CodeOf, SMT DEF AtMatch, RoomBehind, MatchLeavesLoop, FASTLOOP_SAFE_DISTANCE
    <3>2. AtCopy(v)
      BY <2>2, <3>1 DEF AtCopy
    <3>3. IsShort(v) => CopiesMatch(Match18(v), v) /\ ~ Failed(Match18(v))
      BY <3>2, Match18Copies
    <3>4. CopiesMatch(FastCopy(v), v) /\ (Fits(v) => ~ Failed(FastCopy(v)))
      BY <3>2, FastCopyCopies
    <3> QED BY <1>2, <1>5, <2>2, <2>4, <3>3, <3>4
  <2> QED BY <2>3, <2>4
<1> QED BY <1>4, <1>5

-----------------------------------------------------------------------------
(* Turns, and the content they leave.                                        *)

\* A decoder has the content right as far as it is, and its sequence says how that
\* goes on.
Right(d, data) ==
  /\ Buffer(d.mem, d.cap) /\ Correct(d.mem, data, d.op)
  /\ Now(d).at = d.op
  /\ LiteralIn(data, Now(d)) /\ MatchIn(data, Now(d))
  /\ Now(d).length = 0 \/ Now(d).offset >= 1

\* A turn whose literals lie at ip goes on with what the content is, or ends with
\* the block, unless it fails.
Delivers(f, d, data, ip) ==
  ~ Failed(f) => /\ Buffer(f.mem, d.cap) /\ Correct(f.mem, data, f.op)
                 /\ Decoding(f) \/ Finished(f)
                 /\ Decoding(f) => f.op = d.op + Now(d).lit + Now(d).length
                 /\ Finished(f) => f.op = d.op + Now(d).lit /\ f.op <= d.cap /\ ip + Now(d).lit = d.iend

\* Nothing of the sequence is missing, and there is room for it: the last ends
\* the block, and behind another there is more.
Sufficient(d, ip) ==
  /\ Now(d).length = 0 => ip + Now(d).lit = d.iend /\ d.op + Now(d).lit <= d.cap
  /\ Now(d).length >= 4 => /\ ip + Now(d).lit + 2 + LengthSize(d) + 6 <= d.iend
                           /\ d.op + Now(d).lit + 12 <= d.cap
                           /\ d.op + Now(d).lit + Now(d).length + 5 <= d.cap
                           /\ Now(d).offset <= d.op + Now(d).lit + d.dict

LEMMA KeepingRight ==
  ASSUME NEW d, NEW v, Keeps(v, d), NEW data
  PROVE  /\ Right(d, data) => Right(v, data)
         /\ \A f, ip : Delivers(f, v, data, ip) => Delivers(f, d, data, ip)
         /\ \A ip : Sufficient(d, ip) => Sufficient(v, ip)
<1>1. /\ Now(v) = Now(d) /\ v.cap = d.cap /\ v.dict = d.dict /\ v.iend = d.iend /\ v.mem = d.mem /\ v.op = d.op
      /\ LengthSize(v) = LengthSize(d)
  BY WithinAgain, Keeping DEF Keeps
<1>2. Right(d, data) => Right(v, data)
  BY <1>1 DEF Right
<1>3. \A f, ip : Delivers(f, v, data, ip) => Delivers(f, d, data, ip)
  BY <1>1 DEF Delivers
<1>4. \A ip : Sufficient(d, ip) => Sufficient(v, ip)
  BY <1>1 DEF Sufficient
<1> QED BY <1>2, <1>3, <1>4

LEMMA FailedDelivers ==
  ASSUME NEW f, Failed(f), NEW d, NEW data, NEW ip
  PROVE  Delivers(f, d, data, ip)
BY DEF Delivers

\* Literals, whatever is copied behind them, are the content's.
LEMMA LiteralsRight ==
  ASSUME NEW d, AtWork(d), NEW data, Right(d, data), NEW bytes, d.op + Now(d).lit <= d.cap
  PROVE  LET u == Literals(d, bytes)
         IN  /\ Buffer(u.mem, d.cap) /\ Correct(u.mem, data, d.op + Now(d).lit)
             /\ u.op = d.op + Now(d).lit
<1> DEFINE u == Literals(d, bytes)
           s == Now(d)
           op == d.op
           cap == d.cap
           m == [p \in DOMAIN d.mem |->
                   IF p >= op /\ p < op + s.lit THEN s.at + p - op
                   ELSE IF p >= op /\ p < op + bytes THEN Junk ELSE d.mem[p]]
<1>1. op \in Nat /\ cap \in Nat /\ s.lit \in Nat /\ s.at = op /\ DOMAIN d.mem = 0 .. cap - 1 /\ op + s.lit <= cap
  BY DEF AtWork, IsDecoder, IsSequence, Right, Buffer
<1>2. u.mem = m /\ u.op = op + s.lit
  BY DEF Literals, AtWork, IsDecoder, DecoderFields
<1>3. DOMAIN m = 0 .. cap - 1
  BY <1>1
<1>4. \A p \in 0 .. op - 1 : d.mem[p] = data[p + 1]
  BY DEF Right, Correct
<1>5. \A p \in op .. op + s.lit - 1 : data[p + 1] = p
  BY <1>1 DEF Right, LiteralIn
<1> HIDE DEF op, cap, s, u
<1>6. ASSUME NEW p \in 0 .. (op + s.lit) - 1 PROVE m[p] = data[p + 1]
  <2>1. p \in 0 .. cap - 1
    BY <1>1, SMT
  <2>2. CASE p < op
    <3>1. p \in 0 .. op - 1 /\ ~ (p >= op)
      BY <1>1, <2>2, SMT
    <3> QED BY <1>1, <1>4, <2>1, <3>1
  <2>3. CASE ~ (p < op)
    <3>1. p \in op .. op + s.lit - 1 /\ p >= op /\ p < op + s.lit /\ s.at + p - op = p
      BY <1>1, <2>3, SMT
    <3>2. m[p] = s.at + p - op
      BY <1>1, <2>1, <3>1
    <3> QED BY <1>5, <3>1, <3>2
  <2> QED BY <2>2, <2>3
<1> HIDE DEF m
<1>7. Correct(m, data, op + s.lit)
  BY <1>6 DEF Correct
<1> QED BY <1>2, <1>3, <1>7 DEF u, s, op, cap, Buffer

\* A match behind literals: what a copy of it leaves.
LEMMA LiteralsThenMatch ==
  ASSUME NEW d, AtWork(d), Decoding(d), Now(d).length >= 4, NEW data, Right(d, data),
         NEW bytes \in Nat, d.ip + bytes <= d.iend, d.op + bytes <= d.cap, d.op + Now(d).lit <= d.cap,
         d.ip + Now(d).lit + 2 < d.iend
  PROVE  LET w == Offset(Literals(d, bytes))
         IN  /\ Buffer(w.mem, w.cap) /\ Now(w).offset >= 1
             /\ \A f, ip, x : CopiesMatch(f, w) /\ Turns(f, w, x) => Delivers(f, d, data, ip)
             /\ Sufficient(d, d.ip) => Fits(w) /\ GoesOn(w)
<1> DEFINE u == Literals(d, bytes)
           w == Offset(u)
           s == Now(d)
<1>1. /\ Within(w, d) /\ AtOffset(w) /\ Decoding(w)
      /\ w.ip = d.ip + s.lit + 2 /\ w.op = d.op + s.lit
      /\ LengthSize(w) = LengthSize(d) /\ w.cap = d.cap
  BY LiteralsThenOffset
<1>2. Buffer(u.mem, d.cap) /\ Correct(u.mem, data, d.op + s.lit) /\ u.op = d.op + s.lit
  BY LiteralsRight
<1>3. Within(u, d) /\ u.ip = d.ip + s.lit
  BY LiteralsWithin
<1>4. w.mem = u.mem
  BY <1>3 DEF Offset, ReadTo, Within, SameBlock, DecoderFields
<1>5. /\ d.op \in Nat /\ d.cap \in Nat /\ d.ip \in Nat /\ d.iend \in Nat /\ d.dict \in Nat /\ s.lit \in Nat
      /\ s.length \in Nat /\ s.offset \in Nat /\ s.at = d.op /\ s.offset >= 1
      /\ MatchIn(data, s)
  BY DEF AtWork, IsDecoder, IsSequence, Right
<1> HIDE DEF u, w
<1>6. Now(w) = s /\ w.iend = d.iend /\ w.dict = d.dict
  BY <1>1, WithinAgain
<1>7. ASSUME NEW f, NEW ip, NEW x, CopiesMatch(f, w), Turns(f, w, x), ~ Failed(f) PROVE Delivers(f, d, data, ip)
  <2>1. /\ Decoding(f) /\ f.op = w.op + s.length
        /\ Repeats(f.mem, w.mem, w.op, s.offset, w.op + s.length)
    BY <1>6, <1>7 DEF CopiesMatch
  <2>2. Arrives(f, w, x)
    BY <1>7, <2>1 DEF Turns, Ends
  <2>3. f.op <= d.cap
    BY <1>1, <2>2 DEF Arrives, SameBlock
  <2> DEFINE op == w.op
             to == w.op + s.length
  <2>4. op \in Nat /\ to \in Nat /\ to <= d.cap /\ s.offset \in Nat \ {0} /\ op = s.at + s.lit /\ to = s.at + s.lit + s.length
    BY <1>1, <1>5, <2>1, <2>3, SMT
  <2>5. \A p \in op .. to - 1 : data[p + 1] = ByteAt(data, p - s.offset)
    BY <1>5, <2>4 DEF MatchIn
  <2>6. Correct(w.mem, data, op) /\ Buffer(w.mem, d.cap) /\ Repeats(f.mem, w.mem, op, s.offset, to)
    BY <1>1, <1>2, <1>4, <2>1
  <2> HIDE DEF op, to
  <2>7. Correct(f.mem, data, to)
    BY <1>5, <2>4, <2>5, <2>6, RepeatsRight
  <2>8. Buffer(f.mem, d.cap)
    BY <2>6 DEF Repeats, Buffer
  <2>9. f.op = to /\ f.op = d.op + s.lit + s.length
    BY <1>1, <2>1 DEF to
  <2>10. ~ Finished(f)
    BY <2>1 DEF Finished, Decoding
  <2> QED BY <2>1, <2>7, <2>8, <2>9, <2>10 DEF Delivers
<1>8. \A f, ip, x : CopiesMatch(f, w) /\ Turns(f, w, x) => Delivers(f, d, data, ip)
  BY <1>7, FailedDelivers
<1>9. Sufficient(d, d.ip) => Fits(w) /\ GoesOn(w)
  <2> SUFFICES ASSUME Sufficient(d, d.ip) PROVE Fits(w) /\ GoesOn(w)
    OBVIOUS
  <2>1. /\ d.ip + s.lit + 2 + LengthSize(d) + 6 <= d.iend
        /\ d.op + s.lit + s.length + 5 <= d.cap
        /\ s.offset <= d.op + s.lit + d.dict
    BY DEF Sufficient
  <2>2. GoesOn(w)
    BY <1>1, <1>6, <2>1 DEF GoesOn
  <2>3. Match(w) = d.op + s.lit - s.offset
    BY <1>1, <1>5, <1>6, SMT DEF Match
  <2>4. ~ OffsetOutside(w)
    BY <1>1, <1>5, <1>6, <2>1, <2>3, SMT DEF OffsetOutside
  <2>5. Fits(w)
    BY <1>1, <1>6, <2>1, <2>4 DEF Fits
  <2> QED BY <2>2, <2>5
<1> QED BY <1>1, <1>2, <1>4, <1>5, <1>6, <1>8, <1>9 DEF u, w

\* safe_literal_copy delivers the sequence, or ends with the block.
LEMMA SafeLiteralsDelivers ==
  ASSUME NEW d, AtLiterals(d), ~ d.fast, NEW data, Right(d, data)
  PROVE  /\ Delivers(SafeLiterals(d), d, data, d.ip)
         /\ Sufficient(d, d.ip) => ~ Failed(SafeLiterals(d))
<1> DEFINE lit == Now(d).lit
<1>1. /\ d.ip \in Nat /\ d.iend \in Nat /\ d.op \in Nat /\ d.cap \in Nat /\ lit \in Nat
      /\ IsDecoder(d) /\ Inside(d) /\ AtWork(d) /\ Decoding(d) /\ d.op <= d.cap
      /\ Now(d).length = 0 \/ Now(d).length >= 4
      /\ LengthSize(d) \in Nat
  BY SizeParts DEF AtLiterals, AtWork, IsDecoder, IsSequence
<1>2. CASE NearAnEnd(d) /\ EndsBlock(d)
  <2> DEFINE u == Literals(d, lit)
             f == [u EXCEPT !.status = "done"]
  <2>1. d.ip + lit = d.iend /\ d.ip + lit <= d.iend /\ d.op + lit <= d.cap
    BY <1>1, <1>2, SMT DEF EndsBlock
  <2>2. Within(u, d)
    BY <1>1, <2>1, LiteralsWithin DEF AtLiterals
  <2>3. Buffer(u.mem, d.cap) /\ Correct(u.mem, data, d.op + lit) /\ u.op = d.op + lit
    BY <1>1, <2>1, LiteralsRight
  <2>4. SafeLiterals(d) = f
    BY <1>2 DEF SafeLiterals
  <2> HIDE DEF u
  <2>5. f.status = "done" /\ f.mem = u.mem /\ f.op = u.op
    BY <2>2 DEF Within, SameBlock, DecoderFields
  <2> HIDE DEF f
  <2>6. Finished(f) /\ ~ Decoding(f) /\ ~ Failed(f)
    BY <2>5 DEF Finished, Decoding, Failed
  <2>7. Delivers(f, d, data, d.ip)
    BY <2>1, <2>3, <2>5, <2>6 DEF Delivers
  <2> QED BY <2>4, <2>6, <2>7
<1>3. CASE NearAnEnd(d) /\ ~ EndsBlock(d)
  <2>1. SafeLiterals(d) = OutputError(d)
    BY <1>3 DEF SafeLiterals
  <2>2. Failed(OutputError(d))
    BY <1>1, ErrorCopies
  <2>3. ~ Sufficient(d, d.ip)
    <3>1. CASE Now(d).length = 0
      BY <1>1, <1>3, <3>1, SMT DEF Sufficient, EndsBlock
    <3>2. CASE Now(d).length >= 4 /\ LengthSize(d) \in Nat
      <4>1. d.op + lit > d.cap - 12 \/ d.ip + lit > d.iend - 8
        BY <1>1, <1>3, SMT DEF NearAnEnd, MFLIMIT, LASTLITERALS
      <4> HIDE DEF lit
      <4>2. ~ (d.ip + lit + 2 + LengthSize(d) + 6 <= d.iend /\ d.op + lit + 12 <= d.cap)
        BY <1>1, <3>2, <4>1, SMT
      <4> QED BY <3>2, <4>2 DEF Sufficient, lit
    <3> QED BY <1>1, <3>1, <3>2
  <2> QED BY <2>1, <2>2, <2>3, FailedDelivers
<1>4. CASE ~ NearAnEnd(d)
  <2> DEFINE bytes == Copied8(lit)
             w == Offset(Literals(d, bytes))
  <2>1. d.op + lit <= d.cap - 12 /\ d.ip + lit <= d.iend - 8
    BY <1>1, <1>4, SMT DEF NearAnEnd, MFLIMIT, LASTLITERALS
  <2>2. Now(d).length >= 4
    BY <1>1, <2>1, SMT DEF AtLiterals
  <2>3. bytes \in Nat /\ (lit = 0 => bytes = 8) /\ (lit > 0 => bytes <= lit + 7)
    BY <1>1, CopiedBound
  <2> HIDE DEF bytes
  <2>4. d.ip + bytes <= d.iend /\ d.op + bytes <= d.cap /\ d.ip + lit + 2 < d.iend /\ d.op + lit <= d.cap
    BY <1>1, <2>1, <2>3, SMT
  <2>5. /\ Within(w, d) /\ AtOffset(w) /\ Decoding(w)
        /\ w.ip = d.ip + lit + 2 /\ w.op = d.op + lit
        /\ LengthSize(w) = LengthSize(d) /\ w.cap = d.cap
    BY <1>1, <2>2, <2>3, <2>4, LiteralsThenOffset
  <2>6. /\ Buffer(w.mem, w.cap) /\ Now(w).offset >= 1
        /\ \A f, ip, x : CopiesMatch(f, w) /\ Turns(f, w, x) => Delivers(f, d, data, ip)
        /\ Sufficient(d, d.ip) => Fits(w) /\ GoesOn(w)
    BY <1>1, <2>2, <2>3, <2>4, LiteralsThenMatch
  <2>7. SafeLiterals(d) = CopyMatch(w)
    BY <1>4 DEF SafeLiterals, bytes
  <2> HIDE DEF w
  <2>8. AtMatch(w) /\ w.op + 12 <= w.cap
    <3>1. ~ w.fast
      BY <2>5 DEF Within
    <3> QED
      BY <1>1, <2>1, <2>5, <3>1 DEF AtMatch, RoomBehind
  <2>9. Turns(CopyMatch(w), w, w.ip + LengthSize(w))
    BY <2>5, <2>8, CopyMatchTurns
  <2>10. CopiesMatch(CopyMatch(w), w) /\ (Fits(w) /\ GoesOn(w) => ~ Failed(CopyMatch(w)))
    <3>1. AtCopy(w)
      BY <2>5, <2>6, <2>8 DEF AtCopy
    <3> QED BY <2>8, <3>1, CopyMatchCopies
  <2> QED BY <2>6, <2>7, <2>9, <2>10
<1> QED BY <1>2, <1>3, <1>4

\* Where the literals lie.
LiteralsIp(d) == d.ip + 1 + LengthBytes(Now(d).lit, 15)

LEMMA TokenKeeps ==
  ASSUME NEW d, AtToken(d)
  PROVE  Keeps(Token(d), d)
<1>1. IsDecoder(d) /\ Inside(d) /\ 1 \in Nat /\ d.ip + 1 <= d.iend
  BY TokenRead DEF AtToken, AtWork
<1> QED BY <1>1, ReadToKeeps DEF Token

LEMMA LiteralsLengthKeeps ==
  ASSUME NEW d, AtToken(d)
  PROVE  LET v == LiteralsLength(d)
         IN  /\ ~ Failed(v) => Keeps(v, d) /\ Within(v, d) /\ AtLiterals(v) /\ v.op = d.op /\ v.ip = LiteralsIp(d)
             /\ Sufficient(d, LiteralsIp(d)) => ~ Failed(v)
<1> DEFINE t == Token(d)
           v == LiteralsLength(d)
           lit == Now(d).lit
           bytes == LengthBytes(lit, 15)
           ip == LiteralsIp(d)
<1>1. Keeps(t, d) /\ Within(t, d) /\ t.ip = d.ip + 1
  BY TokenKeeps, TokenRead
<1>2. Now(t) = Now(d) /\ AtWork(t) /\ Decoding(t) /\ ~ Failed(t) /\ t.iend = d.iend
  BY <1>1, WithinAgain DEF AtToken
<1>3. ~ Failed(v) => Within(v, d) /\ AtLiterals(v) /\ v.op = d.op /\ v.ip = ip
  BY LiteralsLengthRead DEF LiteralsIp
<1>4. /\ lit \in Nat /\ d.ip \in Nat /\ d.iend \in Nat /\ bytes \in Nat /\ LengthSize(d) \in Nat
      /\ Now(d).length = 0 \/ Now(d).length >= 4
  BY SizeParts DEF AtToken, AtWork, IsDecoder, IsSequence
<1>5. lit >= 15 => bytes >= 1
  <2>1. lit >= 15 => lit <= 255 * bytes + 14
    BY <1>4, LengthBytesBound
  <2> HIDE DEF bytes
  <2> QED BY <1>4, <2>1, SMT
<1>6. v = IF lit < 15 THEN t ELSE read_variable_length(t, lit, t.iend - 15, TRUE)
  BY <1>2 DEF LiteralsLength, RUN_MASK
<1>7. Sufficient(d, ip) => ip + lit <= d.iend
  <2>1. ip \in Nat
    BY <1>4 DEF LiteralsIp
  <2>2. Sufficient(d, ip) => (Now(d).length = 0 => ip + lit = d.iend)
                             /\ (Now(d).length >= 4 => ip + lit + 2 + LengthSize(d) + 6 <= d.iend)
    BY DEF Sufficient
  <2> HIDE DEF ip, lit
  <2> QED BY <1>4, <2>1, <2>2, SMT
<1> HIDE DEF t, v
<1>8. CASE lit < 15
  BY <1>1, <1>2, <1>3, <1>6, <1>8 DEF v
<1>9. CASE ~ (lit < 15)
  <2> DEFINE limit == t.iend - 15
  <2>1. limit \in Int /\ limit < t.iend /\ TRUE \in BOOLEAN /\ IsDecoder(t) /\ Inside(t)
    BY <1>2, <1>4 DEF AtWork
  <2>2. v = read_variable_length(t, lit, limit, TRUE)
    BY <1>6, <1>9
  <2>3. ip + lit <= d.iend => t.ip < limit /\ t.ip + bytes <= limit
    <3>1. ip = d.ip + 1 + bytes
      BY DEF LiteralsIp
    <3> HIDE DEF lit, bytes, ip
    <3> QED BY <1>1, <1>2, <1>4, <1>5, <1>9, <3>1, SMT
  <2> HIDE DEF limit
  <2>4. /\ ~ Failed(v) => v.mem = t.mem
        /\ ~ Failed(t) /\ (TRUE => t.ip < limit) /\ t.ip + LengthBytes(lit, 15) <= limit => ~ Failed(v)
    BY <1>4, <2>1, <2>2, VariableLengthKeeps
  <2>5. ~ Failed(v) => v.mem = d.mem
    BY <1>1, <2>4 DEF Keeps
  <2> QED BY <1>2, <1>3, <1>7, <2>3, <2>4, <2>5 DEF Keeps, v
<1> QED BY <1>8, <1>9

\* Behind the literals' length, out of the fast loop.
LEMMA SafeLiteralsDeliversOn ==
  ASSUME NEW d, NEW v, Keeps(v, d), AtLiterals(v), ~ v.fast, v.ip = LiteralsIp(d), NEW data, Right(d, data)
  PROVE  /\ Delivers(SafeLiterals(v), d, data, LiteralsIp(d))
         /\ Sufficient(d, LiteralsIp(d)) => ~ Failed(SafeLiterals(v))
<1>1. Right(v, data)
  BY KeepingRight
<1>2. /\ Delivers(SafeLiterals(v), v, data, v.ip)
      /\ Sufficient(v, v.ip) => ~ Failed(SafeLiterals(v))
  BY <1>1, SafeLiteralsDelivers
<1>3. /\ \A f, ip : Delivers(f, v, data, ip) => Delivers(f, d, data, ip)
      /\ \A ip : Sufficient(d, ip) => Sufficient(v, ip)
  BY KeepingRight
<1> QED BY <1>2, <1>3

\* A turn of the main loop delivers its sequence.
LEMMA SafeSequenceDelivers ==
  ASSUME NEW d, AtToken(d), ~ d.fast, NEW data, Right(d, data)
  PROVE  /\ Delivers(SafeSequence(d), d, data, LiteralsIp(d))
         /\ Sufficient(d, LiteralsIp(d)) => ~ Failed(SafeSequence(d))
<1> DEFINE t == Token(d)
           v == LiteralsLength(d)
           u == Offset(Literals(t, 16))
           lit == Now(d).lit
           shortcut == lit < 15 /\ t.ip < t.iend - 16 /\ t.op <= t.cap - 32
<1>1. Keeps(t, d) /\ Within(t, d) /\ t.ip = d.ip + 1 /\ t.op = d.op
  BY TokenRead, TokenKeeps
<1>2. /\ Now(t) = Now(d) /\ AtWork(t) /\ Decoding(t) /\ t.iend = d.iend /\ t.cap = d.cap /\ ~ t.fast
  BY <1>1, WithinAgain DEF AtToken
<1>3. /\ d.ip \in Nat /\ d.iend \in Nat /\ d.op \in Nat /\ d.cap \in Nat
      /\ lit \in Nat /\ LengthBytes(lit, 15) \in Nat
      /\ lit < 15 => LengthBytes(lit, 15) = 0
  BY SizeParts, LengthBytesBound DEF AtToken, AtWork, IsDecoder
<1>4. SafeSequence(d) = IF shortcut THEN IF IsShort(u) THEN Match18(u) ELSE CopyMatch(u)
                        ELSE IF Failed(v) THEN v ELSE SafeLiterals(v)
  BY <1>2 DEF SafeSequence, LiteralsLength, Failed, RUN_MASK
<1>5. CASE shortcut
  <2>1. LengthBytes(lit, 15) = 0 /\ lit <= 14 /\ d.ip + 17 < d.iend /\ d.op + 32 <= d.cap
    BY <1>1, <1>2, <1>3, <1>5, SMT
  <2>2. Now(d).length >= 4
    BY <1>3, <2>1, SMT DEF AtToken
  <2>3. /\ 16 \in Nat /\ t.ip + 16 <= t.iend /\ t.op + 16 <= t.cap /\ t.ip + lit + 2 < t.iend
        /\ t.op + lit <= t.cap
    BY <1>1, <1>2, <1>3, <2>1, SMT
  <2>4. /\ Within(u, t) /\ AtOffset(u) /\ Decoding(u) /\ u.op = t.op + lit /\ u.cap = t.cap
    BY <1>2, <2>2, <2>3, LiteralsThenOffset
  <2>5. Right(t, data)
    BY <1>1, KeepingRight
  <2>6. /\ Buffer(u.mem, u.cap) /\ Now(u).offset >= 1
        /\ \A f, ip, x : CopiesMatch(f, u) /\ Turns(f, u, x) => Delivers(f, t, data, ip)
        /\ Sufficient(t, t.ip) => Fits(u) /\ GoesOn(u)
    BY <1>2, <2>2, <2>3, <2>5, LiteralsThenMatch
  <2>7. t.ip = LiteralsIp(d)
    <3> HIDE DEF lit, t
    <3> QED BY <1>1, <1>3, <2>1, SMT DEF LiteralsIp, lit
  <2>8. /\ \A f, ip : Delivers(f, t, data, ip) => Delivers(f, d, data, ip)
        /\ Sufficient(d, LiteralsIp(d)) => Sufficient(t, t.ip)
    BY <1>1, <2>7, KeepingRight
  <2> HIDE DEF u, t
  <2>9. AtMatch(u) /\ AtCopy(u)
    <3>1. ~ u.fast
      BY <1>2, <2>4 DEF Within
    <3> QED
      BY <2>4, <2>6, <3>1 DEF AtMatch, RoomBehind, AtCopy
  <2>10. u.op + 18 <= u.cap /\ u.op + 12 <= u.cap
    BY <1>1, <1>2, <1>3, <2>1, <2>4, SMT
  <2>11. IsShort(u) => CopiesMatch(Match18(u), u) /\ ~ Failed(Match18(u)) /\ Turns(Match18(u), u, u.ip)
    BY <2>9, <2>10, Match18Copies, Match18Turns
  <2>12. /\ CopiesMatch(CopyMatch(u), u) /\ Turns(CopyMatch(u), u, u.ip + LengthSize(u))
         /\ Fits(u) /\ GoesOn(u) => ~ Failed(CopyMatch(u))
    BY <2>4, <2>9, <2>10, CopyMatchCopies, CopyMatchTurns
  <2> QED BY <1>4, <1>5, <2>6, <2>8, <2>11, <2>12
<1>6. CASE ~ shortcut
  <2>1. /\ ~ Failed(v) => Keeps(v, d) /\ Within(v, d) /\ AtLiterals(v) /\ v.op = d.op /\ v.ip = LiteralsIp(d)
        /\ Sufficient(d, LiteralsIp(d)) => ~ Failed(v)
    BY LiteralsLengthKeeps
  <2>2. SafeSequence(d) = IF Failed(v) THEN v ELSE SafeLiterals(v)
    BY <1>4, <1>6
  <2> HIDE DEF v
  <2>3. CASE Failed(v)
    BY <2>1, <2>2, <2>3, FailedDelivers
  <2>4. CASE ~ Failed(v)
    <3>1. ~ v.fast
      BY <2>1, <2>4 DEF Within
    <3> QED BY <2>1, <2>2, <2>4, <3>1, SafeLiteralsDeliversOn
  <2> QED BY <2>3, <2>4
<1> QED BY <1>5, <1>6

\* A turn of the fast loop delivers its sequence.
LEMMA FastSequenceDelivers ==
  ASSUME NEW d, AtToken(d), d.op + 64 <= d.cap, NEW data, Right(d, data)
  PROVE  /\ Delivers(FastSequence(d), d, data, LiteralsIp(d))
         /\ Sufficient(d, LiteralsIp(d)) => ~ Failed(FastSequence(d))
<1> DEFINE t == Token(d)
           v == LiteralsLength(d)
           lit == Now(d).lit
           bytes == LengthBytes(lit, 15)
           leave == IF lit < 15 THEN v.ip > v.iend - 17
                    ELSE v.op + lit > v.cap - 32 \/ v.ip + lit > v.iend - 32
           copied == IF lit < 15 THEN 16 ELSE Reached(0, lit, 32)
           u == Offset(Literals(v, copied))
<1>1. /\ ~ Failed(v) => Keeps(v, d) /\ Within(v, d) /\ AtLiterals(v) /\ v.op = d.op /\ v.ip = LiteralsIp(d)
      /\ Sufficient(d, LiteralsIp(d)) => ~ Failed(v)
  BY LiteralsLengthKeeps
<1>2. Now(t) = Now(d)
  BY TokenRead, WithinAgain
<1>3. FastSequence(d) =
        LET leaves == IF lit < 15 THEN v.ip > v.iend - 17
                      ELSE v.op + Now(v).lit > v.cap - 32 \/ v.ip + Now(v).lit > v.iend - 32
        IN  IF Failed(v) THEN v
            ELSE IF leaves THEN SafeLiterals(SafeLoop(v))
            ELSE FastMatch(Offset(Literals(v, IF lit < 15 THEN 16 ELSE Reached(0, Now(v).lit, 32))))
  BY <1>2 DEF FastSequence, LiteralsLength, Failed, RUN_MASK
<1> HIDE DEF v
<1>4. CASE Failed(v)
  BY <1>1, <1>3, <1>4, FailedDelivers
<1>5. CASE ~ Failed(v)
  <2>0. Keeps(v, d) /\ Within(v, d) /\ AtLiterals(v) /\ v.op = d.op /\ v.ip = LiteralsIp(d)
    BY <1>1, <1>5
  <2>1. Now(v) = Now(d) /\ v.iend = d.iend /\ v.cap = d.cap
    BY <2>0, WithinAgain
  <2>2. FastSequence(d) = IF leave THEN SafeLiterals(SafeLoop(v)) ELSE FastMatch(u)
    BY <1>3, <1>5, <2>1
  <2>3. IsDecoder(v) /\ Inside(v) /\ AtWork(v) /\ Decoding(v)
    BY <2>0 DEF AtLiterals, AtWork
  <2>4. CASE leave
    <3> DEFINE x == SafeLoop(v)
    <3>1. Keeps(x, v) /\ Within(x, v) /\ x.ip = v.ip /\ x.op = v.op /\ ~ x.fast
      BY <2>3, SafeLoopKeeps, SafeLoopWithin
    <3> HIDE DEF x
    <3>2. Now(x) = Now(v) /\ AtWork(x) /\ Decoding(x) /\ x.iend = v.iend /\ x.cap = v.cap /\ Within(x, d)
      BY <2>0, <2>3, <3>1, WithinAgain
    <3>3. AtLiterals(x) /\ Keeps(x, d)
      BY <2>0, <3>1, <3>2 DEF AtLiterals, Keeps
    <3>4. /\ Delivers(SafeLiterals(x), d, data, LiteralsIp(d))
          /\ Sufficient(d, LiteralsIp(d)) => ~ Failed(SafeLiterals(x))
      BY <2>0, <3>1, <3>3, SafeLiteralsDeliversOn
    <3> QED BY <2>2, <2>4, <3>4 DEF x
  <2>5. CASE ~ leave
    <3>1. /\ d.ip \in Nat /\ d.iend \in Nat /\ d.op \in Nat /\ d.cap \in Nat
          /\ lit \in Nat /\ bytes \in Nat /\ v.ip = d.ip + 1 + bytes
      BY <2>0, SizeParts DEF AtToken, AtWork, IsDecoder, LiteralsIp
    <3> HIDE DEF bytes
    <3>2. /\ copied \in Nat
          /\ v.ip + copied <= v.iend /\ v.op + copied <= v.cap
          /\ v.ip + lit + 2 < v.iend /\ v.op + lit + 12 <= v.cap /\ v.op + lit <= v.cap
      <4>1. CASE lit < 15
        BY <2>0, <2>1, <2>5, <3>1, <4>1, SMT
      <4>2. CASE ~ (lit < 15)
        <5>1. /\ v.op + lit + 32 <= v.cap /\ v.ip + lit + 32 <= v.iend /\ lit > 0
              /\ v.op \in Nat /\ v.ip \in Nat /\ v.cap \in Nat /\ v.iend \in Nat
          BY <2>0, <2>1, <2>5, <3>1, <4>2, SMT
        <5>2. Reached(0, lit, 32) \in Nat /\ Reached(0, lit, 32) <= lit + 32 - 1
          <6>1. 0 \in Nat /\ 32 \in {8, 32}
            OBVIOUS
          <6> QED
            BY <3>1, <5>1, <6>1, WordsReach
        <5>3. copied = Reached(0, lit, 32)
          BY <4>2
        <5> HIDE DEF copied
        <5> QED
          BY <3>1, <5>1, <5>2, <5>3, SMT
      <4> QED
        BY <4>1, <4>2
    <3>3. Now(v).length >= 4
      BY <2>0, <2>1, <3>1, <3>2, SMT DEF AtLiterals
    <3> HIDE DEF copied
    <3>4. /\ Within(u, v) /\ AtOffset(u) /\ Decoding(u)
          /\ u.op = v.op + lit /\ u.cap = v.cap
      BY <2>1, <2>3, <3>2, <3>3, LiteralsThenOffset
    <3>5. Right(v, data)
      BY <2>0, KeepingRight
    <3>6. /\ Buffer(u.mem, u.cap) /\ Now(u).offset >= 1
          /\ \A f, ip, x : CopiesMatch(f, u) /\ Turns(f, u, x) => Delivers(f, v, data, ip)
          /\ Sufficient(v, v.ip) => Fits(u) /\ GoesOn(u)
      BY <2>1, <2>3, <3>2, <3>3, <3>5, LiteralsThenMatch
    <3> HIDE DEF u
    <3>7. u.op + 12 <= u.cap
      BY <3>2, <3>4
    <3>8. Turns(FastMatch(u), u, u.ip + LengthSize(u))
      BY <3>4, <3>7, FastMatchTurns
    <3>9. CopiesMatch(FastMatch(u), u) /\ (Fits(u) /\ GoesOn(u) => ~ Failed(FastMatch(u)))
      BY <3>4, <3>6, <3>7, FastMatchCopies
    <3>10. /\ \A f, ip : Delivers(f, v, data, ip) => Delivers(f, d, data, ip)
           /\ Sufficient(d, LiteralsIp(d)) => Sufficient(v, v.ip)
      BY <2>0, KeepingRight
    <3> QED BY <2>2, <2>5, <3>6, <3>8, <3>9, <3>10
  <2> QED BY <2>4, <2>5
<1> QED BY <1>4, <1>5

-----------------------------------------------------------------------------
(* The compressor's sequences say what the content is.                       *)

\* The bytes of a match, of the bytes before it again and again.
Repetition(data, start, offset, length) ==
  [i \in 1 .. length |-> ByteAt(data, start + ((i - 1) % offset))]

\* The bytes from `from` to below `to` are what lies offset before them.
LiesBefore(data, from, to, offset) == \A p \in from .. to - 1 : data[p + 1] = ByteAt(data, p - offset)
\* The first bytes are those of another.
BeginsWith(data, first) == \A q \in 1 .. Len(first) : data[q] = first[q]

\* The content of a match, byte by byte, is what lies offset before.
LEMMA MatchRepeats ==
  ASSUME NEW data \in Seq(Int), NEW offset \in Nat \ {0}, NEW length \in Nat, NEW dict \in Nat,
         NEW start, start = Len(data) - offset, offset <= Len(data) + dict
  PROVE  LET longer == data \o Repetition(data, start, offset, length)
         IN  /\ longer \in Seq(Int) /\ Len(longer) \in {Len(data) + length}
             /\ BeginsWith(longer, data)
             /\ LiesBefore(longer, Len(data), Len(data) + length, offset)
<1> DEFINE n == Len(data)
           B(x) == ByteAt(data, start + (x % offset))
           match == Repetition(data, start, offset, length)
           longer == data \o match
<1>1. n \in Nat /\ start = n - offset /\ start \in Int
  BY SMT
<1>2. ASSUME NEW x \in Nat PROVE B(x) \in Int
  <2> DEFINE r == x % offset
  <2>1. r \in 0 .. offset - 1
    BY Remainder
  <2> HIDE DEF r
  <2>2. start + r \in Int /\ start + r < n
    BY <1>1, <2>1, SMT
  <2> DEFINE y == start + r
  <2>3. CASE y < 0
    BY <2>2, <2>3 DEF ByteAt, r
  <2>4. CASE ~ (y < 0)
    <3>1. y + 1 \in 1 .. n
      BY <1>1, <2>2, <2>4, SMT
    <3>2. data[y + 1] \in Int
      BY <3>1
    <3> QED BY <2>4, <3>2 DEF ByteAt, r
  <2> QED BY <2>3, <2>4
<1> HIDE DEF B
<1>3. \A i \in 1 .. length : match[i] = B(i - 1) /\ i - 1 \in Nat
  <2>1. \A i \in 1 .. length : match[i] = B(i - 1)
    BY DEF B, Repetition
  <2> QED BY <2>1, SMT
<1>4. match \in Seq(Int) /\ Len(match) = length
  <2>1. match \in [1 .. length -> Int]
    <3>1. match = [i \in 1 .. length |-> match[i]]
      BY DEF Repetition
    <3>2. \A i \in 1 .. length : match[i] \in Int
      BY <1>2, <1>3
    <3> HIDE DEF match
    <3> QED BY <3>1, <3>2
  <2> HIDE DEF match
  <2> QED BY <2>1, SMT
<1> HIDE DEF match
<1>5. /\ longer \in Seq(Int) /\ Len(longer) = n + length
      /\ \A q \in 1 .. n : longer[q] = data[q]
      /\ \A i \in 1 .. length : longer[n + i] = match[i]
  BY <1>4, SMT
<1> HIDE DEF longer
<1>6. ASSUME NEW p \in n .. (n + length) - 1 PROVE longer[p + 1] = ByteAt(longer, p - offset)
  <2> DEFINE x == p - n
  <2>1. x \in Nat /\ x + 1 \in 1 .. length /\ n + (x + 1) = p + 1 /\ (x + 1) - 1 = x
    BY <1>1, SMT
  <2>2. longer[p + 1] = B(x)
    <3>1. longer[n + (x + 1)] = match[x + 1] /\ match[x + 1] = B((x + 1) - 1)
      BY <1>3, <1>5, <2>1
    <3> QED BY <2>1, <3>1
  <2>3. CASE x < offset
    <3>1. x % offset = x
      BY <2>1, <2>3, Remainder
    <3>2. start + x = p - offset
      BY <1>1, <2>1, SMT
    <3>3. B(x) = ByteAt(data, p - offset)
      BY <3>1, <3>2 DEF B
    <3>4. p - offset >= 0 => p - offset + 1 \in 1 .. n
      BY <1>1, <2>1, <2>3, SMT
    <3>5. CASE p - offset < 0
      BY <2>2, <3>3, <3>5 DEF ByteAt
    <3>6. CASE ~ (p - offset < 0)
      <4>1. p - offset >= 0
        BY <1>1, <3>6, SMT
      <4>2. longer[p - offset + 1] = data[p - offset + 1]
        BY <1>5, <3>4, <4>1
      <4> QED BY <2>2, <3>3, <3>6, <4>2 DEF ByteAt
    <3> QED BY <3>5, <3>6
  <2>4. CASE ~ (x < offset)
    <3> DEFINE y == x - offset
    <3>1. /\ y \in Nat /\ y + 1 \in 1 .. length /\ n + (y + 1) = p - offset + 1 /\ (y + 1) - 1 = y
          /\ ~ (p - offset < 0) /\ x >= offset
      BY <1>1, <2>1, <2>4, SMT
    <3>2. longer[p - offset + 1] = B(y)
      <4>1. longer[n + (y + 1)] = match[y + 1] /\ match[y + 1] = B((y + 1) - 1)
        BY <1>3, <1>5, <3>1
      <4> QED BY <3>1, <4>1
    <3>3. ByteAt(longer, p - offset) = B(y)
      BY <3>1, <3>2 DEF ByteAt
    <3>4. y % offset = x % offset
      <4> DEFINE r == x % offset
      <4>1. offset \in 1 .. offset
        BY SMT
      <4> HIDE DEF x
      <4>2. y % offset = IF r >= offset THEN r - offset ELSE r - offset + offset
        BY <2>1, <3>1, <4>1, RemainderBack
      <4>3. r \in 0 .. offset - 1
        BY <2>1, Remainder
      <4> HIDE DEF r, y
      <4>4. y % offset = r
        BY <4>2, <4>3, SMT
      <4> QED BY <4>4 DEF r
    <3> QED BY <2>2, <3>3, <3>4 DEF B
  <2> QED BY <2>3, <2>4
<1>7. LiesBefore(longer, n, n + length, offset)
  BY <1>6 DEF LiesBefore
<1> QED BY <1>5, <1>7 DEF BeginsWith, longer, match

\* Literals are their positions.
LEMMA LiteralsAppended ==
  ASSUME NEW data \in Seq(Int), NEW lit \in Nat
  PROVE  LET longer == data \o [i \in 1 .. lit |-> Len(data) + i - 1]
         IN  /\ longer \in Seq(Int) /\ Len(longer) = Len(data) + lit
             /\ \A q \in 1 .. Len(data) : longer[q] = data[q]
             /\ \A p \in Len(data) .. Len(data) + lit - 1 : longer[p + 1] = p
<1> DEFINE n == Len(data)
           new == [i \in 1 .. lit |-> n + i - 1]
           longer == data \o new
<1>1. n \in Nat
  OBVIOUS
<1> HIDE DEF n
<1>2. new \in Seq(Int) /\ Len(new) = lit /\ \A i \in 1 .. lit : new[i] = n + i - 1
  <2>1. \A i \in 1 .. lit : n + i - 1 \in Int
    BY <1>1, SMT
  <2>2. new \in [1 .. lit -> Int]
    BY <2>1
  <2>3. \A i \in 1 .. lit : new[i] = n + i - 1
    OBVIOUS
  <2> HIDE DEF new
  <2> QED BY <2>2, <2>3, SMT
<1> HIDE DEF new
<1>3. /\ longer \in Seq(Int) /\ Len(longer) = n + lit
      /\ \A q \in 1 .. n : longer[q] = data[q]
      /\ \A i \in 1 .. lit : longer[n + i] = new[i]
  BY <1>2, SMTT(60) DEF n
<1> HIDE DEF longer
<1>4. ASSUME NEW p \in n .. n + lit - 1 PROVE longer[p + 1] = p
  <2>1. (p + 1) - n \in 1 .. lit /\ n + ((p + 1) - n) = p + 1 /\ n + ((p + 1) - n) - 1 = p
    BY <1>1, SMT
  <2>2. longer[n + ((p + 1) - n)] = n + ((p + 1) - n) - 1
    BY <1>2, <1>3, <2>1
  <2> QED BY <2>1, <2>2
<1> QED BY <1>3, <1>4 DEF longer, new, n

\* A sequence more says more.
LEMMA TellsMore ==
  ASSUME NEW seqs \in Seq(PlacedSequence), NEW data, NEW end \in Nat, NEW n, NEW dict, Tells(seqs, data, end, n, dict),
         NEW s \in PlacedSequence, s.at = end, s.length = 0 \/ MatchPlaced(s, n, dict),
         NEW longer \in Seq(Int), Len(longer) = end + s.lit + s.length,
         \A q \in 1 .. end : longer[q] = data[q], LiteralIn(longer, s), MatchIn(longer, s)
  PROVE  Tells(Append(seqs, s), longer, end + s.lit + s.length, n, dict)
<1> DEFINE more == Append(seqs, s)
           far == end + s.lit + s.length
<1>1. /\ more \in Seq(PlacedSequence) /\ Len(more) = Len(seqs) + 1 /\ Len(seqs) \in Nat
      /\ \A i \in 1 .. Len(seqs) : more[i] = seqs[i]
      /\ more[Len(seqs) + 1] = s
  OBVIOUS
<1>2. s.lit \in Nat /\ s.length \in Nat /\ far \in Nat /\ end <= far
  BY SMT DEF PlacedSequence
<1> HIDE DEF more, far
<1>3. Start(more, far, 1) = 0
  <2>1. CASE Len(seqs) = 0
    BY <1>1, <2>1 DEF Start, Tells
  <2>2. CASE Len(seqs) > 0
    BY <1>1, <2>2 DEF Start, Tells
  <2> QED BY <1>1, <2>1, <2>2
<1>4. ASSUME NEW i \in 1 .. Len(seqs)
      PROVE  LET o == seqs[i] IN
             /\ Start(more, far, i + 1) = o.at + o.lit + o.length
             /\ o.at + o.lit + o.length <= far
             /\ LiteralIn(longer, o) /\ MatchIn(longer, o)
             /\ o.length = 0 \/ MatchPlaced(o, n, dict)
  <2> DEFINE o == seqs[i]
             o1 == o.at
             o2 == o.at + o.lit
             o3 == o.at + o.lit + o.length
  <2>1. /\ Start(seqs, end, i + 1) = o3 /\ o3 <= end
        /\ LiteralIn(data, o) /\ MatchIn(data, o)
        /\ o.length = 0 \/ MatchPlaced(o, n, dict)
    BY DEF Tells
  <2>2. o \in PlacedSequence
    OBVIOUS
  <2>3. o.at \in Nat /\ o.lit \in Nat /\ o.length \in Nat /\ o.offset \in Nat /\ o1 \in Nat /\ o2 \in Nat /\ o3 \in Nat
        /\ o1 <= o2 /\ o2 <= o3
    <3>1. o.at \in Nat /\ o.lit \in Nat /\ o.length \in Nat /\ o.offset \in Nat
      BY <2>2 DEF PlacedSequence
    <3> HIDE DEF o
    <3> QED BY <3>1, SMTT(60)
  <2>4. Start(more, far, i + 1) = Start(seqs, end, i + 1)
    <3>1. CASE i < Len(seqs)
      <4>1. i + 1 \in 1 .. Len(seqs) /\ i + 1 <= Len(seqs) /\ i + 1 <= Len(more)
        BY <1>1, <3>1, SMT
      <4> QED BY <1>1, <4>1 DEF Start
    <3>2. CASE i = Len(seqs)
      <4>1. i + 1 = Len(seqs) + 1 /\ ~ (i + 1 <= Len(seqs)) /\ i + 1 <= Len(more)
        BY <1>1, <3>2, SMT
      <4> QED BY <1>1, <4>1 DEF Start
    <3> QED BY <1>1, <3>1, <3>2, SMT
  <2>5. LiteralIn(longer, o)
    <3>1. ASSUME NEW p \in o.at .. o.at + o.lit - 1 PROVE longer[p + 1] = p
      <4>1. p + 1 \in 1 .. end
        <5> HIDE DEF o
        <5> QED BY <2>1, <2>3, SMTT(60)
      <4>2. data[p + 1] = p
        BY <2>1 DEF LiteralIn
      <4> QED BY <4>1, <4>2
    <3> QED BY <3>1 DEF LiteralIn
  <2>6. MatchIn(longer, o)
    <3>1. ASSUME NEW p \in o.at + o.lit .. o.at + o.lit + o.length - 1 PROVE longer[p + 1] = ByteAt(longer, p - o.offset)
      <4>1. p + 1 \in 1 .. end /\ p \in Nat
        <5> HIDE DEF o
        <5> QED BY <2>1, <2>3, SMT
      <4>2. o.offset >= 1
        <5>1. o.length # 0
          <6> HIDE DEF o
          <6> QED BY <2>3, SMT
        <5>2. o.offset \in 1 .. o.at + o.lit + dict
          BY <2>1, <5>1 DEF MatchPlaced
        <5> HIDE DEF o
        <5> QED BY <2>3, <5>2, SMT
      <4>3. data[p + 1] = ByteAt(data, p - o.offset)
        BY <2>1 DEF MatchIn
      <4>4. CASE p - o.offset < 0
        BY <4>1, <4>3, <4>4 DEF ByteAt
      <4>5. CASE ~ (p - o.offset < 0)
        <5>1. p - o.offset + 1 \in 1 .. end
          <6> DEFINE back == o.offset
          <6>1. back \in Nat /\ back >= 1 /\ ~ (p - back < 0)
            BY <2>3, <4>2, <4>5
          <6> HIDE DEF back
          <6>2. p - back + 1 \in 1 .. end
            BY <4>1, <6>1, SMT
          <6> QED BY <6>2 DEF back
        <5> QED BY <4>1, <4>3, <4>5, <5>1 DEF ByteAt
      <4> QED BY <4>4, <4>5
    <3> QED BY <3>1 DEF MatchIn
  <2>7. o3 <= far
    <3> HIDE DEF o3
    <3> QED BY <1>2, <2>1, <2>3, SMT
  <2> QED BY <2>1, <2>4, <2>5, <2>6, <2>7
<1>5. ASSUME NEW i \in 1 .. Len(more)
      PROVE  LET o == more[i] IN
             /\ Start(more, far, i + 1) = o.at + o.lit + o.length
             /\ o.at + o.lit + o.length <= far
             /\ LiteralIn(longer, o) /\ MatchIn(longer, o)
             /\ o.length = 0 \/ MatchPlaced(o, n, dict)
  <2>1. CASE i \in 1 .. Len(seqs)
    BY <1>1, <1>4, <2>1
  <2>2. CASE i = Len(seqs) + 1
    <3>1. ~ (i + 1 <= Len(more))
      BY <1>1, <2>2
    <3>2. Start(more, far, i + 1) = far /\ more[i] = s
      BY <1>1, <2>2, <3>1 DEF Start
    <3>3. far = s.at + s.lit + s.length /\ far <= far
      BY <1>2 DEF far
    <3> QED BY <3>2, <3>3
  <2> QED BY <1>1, <2>1, <2>2, SMT
<1> QED BY <1>3, <1>5 DEF Tells, more, far

\* A sequence that is written says what the content behind the last one is.
LEMMA EncodeSequenceTells ==
  ASSUME NEW e, EncoderSound(e), EncoderLaid(e), EncoderTells(e), Goes(e),
         NEW s, IsMatch(s), MatchAllowed(e, s), NEW direct \in BOOLEAN
  PROVE  EncoderTells(EncodeSequence(e, s, direct))
<1> DEFINE f == EncodeSequence(e, s, direct)
           p == Placed(e, s)
           literals == e.data \o [i \in 1 .. s.lit |-> e.ip + i - 1]
           data == WithSequence(e, s)
<1>1. /\ f.dict = e.dict /\ f.n = e.n
      /\ \/ f.status = "failed"
         \/ /\ f.status = e.status /\ f.op = e.op + SequenceSize(s) /\ f.seqs = Append(e.seqs, p)
            /\ f.ip = e.ip + s.lit + s.length /\ f.data = data
  BY Zenon DEF EncodeSequence, EncoderSound, IsEncoder, IsRecord
<1>2. /\ IsEncoder(e) /\ e.op \in Nat /\ e.ip \in Nat /\ e.n \in Nat /\ e.dict \in Nat /\ ~ GaveUp(e)
      /\ e.seqs \in Seq(PlacedSequence)
      /\ s.lit \in Nat /\ s.offset \in Nat /\ s.length \in Nat
  BY DEF EncoderSound, IsEncoder, Goes, GaveUp, EncoderLaid, Row, IsMatch
<1>3. /\ s.length >= 4 /\ SequenceSize(s) \in Nat
      /\ e.ip + s.lit + 12 <= e.n /\ e.ip + s.lit + s.length + 5 <= e.n
      /\ s.offset \in 1 .. e.ip + s.lit + e.dict
  <2>1. s.length >= 4 /\ e.ip + s.lit <= e.n - 12 /\ e.ip + s.lit + s.length <= e.n - 5
    BY <1>2, Places
  <2>2. SequenceSize(s) \in Nat
    BY <1>2, <2>1, SequenceSizes
  <2>3. s.offset \in 1 .. e.ip + s.lit + e.dict
    BY DEF MatchAllowed
  <2> QED BY <1>2, <2>1, <2>2, <2>3, SMTT(60)
<1>4. /\ p \in PlacedSequence /\ p.token = e.op /\ p.at = e.ip /\ p.lit = s.lit /\ p.length = s.length
      /\ p.offset = s.offset
  BY <1>2 DEF Placed, PlacedSequence
<1>5. Tells(e.seqs, e.data, e.ip, e.n, e.dict) /\ e.data \in Seq(Int) /\ Len(e.data) = e.ip
  BY <1>2 DEF EncoderTells, Tells
<1>6. /\ literals \in Seq(Int) /\ Len(literals) = e.ip + s.lit
      /\ \A q \in 1 .. e.ip : literals[q] = e.data[q]
      /\ \A x \in e.ip .. e.ip + s.lit - 1 : literals[x + 1] = x
  <2> DEFINE L(n) == e.data \o [i \in 1 .. s.lit |-> n + i - 1]
  <2>1. L(Len(e.data)) = literals
    BY <1>5
  <2>2. /\ L(Len(e.data)) \in Seq(Int) /\ Len(L(Len(e.data))) = Len(e.data) + s.lit
        /\ \A q \in 1 .. Len(e.data) : L(Len(e.data))[q] = e.data[q]
        /\ \A x \in Len(e.data) .. Len(e.data) + s.lit - 1 : L(Len(e.data))[x + 1] = x
    BY <1>2, <1>5, LiteralsAppended
  <2> HIDE DEF L, literals
  <2> QED BY <1>5, <2>1, <2>2
<1>7. /\ data \in Seq(Int) /\ Len(data) = e.ip + s.lit + s.length
      /\ \A q \in 1 .. e.ip + s.lit : data[q] = literals[q]
      /\ \A x \in e.ip + s.lit .. e.ip + s.lit + s.length - 1 : data[x + 1] = ByteAt(data, x - s.offset)
  <2> DEFINE M(start) == literals \o [i \in 1 .. s.length |-> ByteAt(literals, start + ((i - 1) % s.offset))]
             n == e.ip + s.lit
             there == Len(literals) - s.offset
  <2>1. data = M(e.ip + s.lit - s.offset)
    BY DEF WithSequence
  <2> HIDE DEF literals
  <2>2. n = Len(literals) /\ e.ip + s.lit - s.offset = there /\ n \in Nat
    BY <1>2, <1>6, SMT
  <2>3. s.offset \in Nat \ {0} /\ s.offset <= Len(literals) + e.dict
    <3> DEFINE offset == s.offset
    <3>1. offset \in Nat /\ offset \in 1 .. n + e.dict
      BY <1>2, <1>3
    <3> HIDE DEF offset, n
    <3>2. offset \in Nat \ {0} /\ offset <= n + e.dict
      BY <1>2, <2>2, <3>1, SMT
    <3> QED BY <2>2, <3>2 DEF offset
  <2>4. data = literals \o Repetition(literals, there, s.offset, s.length)
    BY <2>1, <2>2 DEF Repetition
  <2>5. /\ literals \in Seq(Int) /\ s.length \in Nat /\ e.dict \in Nat /\ there = Len(literals) - s.offset
        /\ s.offset \in Nat \ {0} /\ s.offset <= Len(literals) + e.dict
    BY <1>2, <1>6, <2>3
  <2> HIDE DEF M, data, there
  <2>6. /\ data \in Seq(Int) /\ Len(data) = n + s.length
        /\ \A q \in 1 .. n : data[q] = literals[q]
        /\ \A x \in n .. (n + s.length) - 1 : data[x + 1] = ByteAt(data, x - s.offset)
    <3> DEFINE longer == literals \o Repetition(literals, there, s.offset, s.length)
    <3>1. /\ longer \in Seq(Int) /\ Len(longer) = Len(literals) + s.length
          /\ \A q \in 1 .. Len(literals) : longer[q] = literals[q]
          /\ \A x \in Len(literals) .. (Len(literals) + s.length) - 1 : longer[x + 1] = ByteAt(longer, x - s.offset)
      <4> DEFINE offset == s.offset
                 length == s.length
                 dict == e.dict
                 L(o, l) == literals \o Repetition(literals, there, o, l)
      <4>1. /\ literals \in Seq(Int) /\ length \in Nat /\ dict \in Nat /\ there = Len(literals) - offset
            /\ offset \in Nat \ {0} /\ offset <= Len(literals) + dict
        BY <2>5
      <4> HIDE DEF offset, length, dict
      <4>2. /\ L(offset, length) \in Seq(Int) /\ Len(L(offset, length)) = Len(literals) + length
            /\ BeginsWith(L(offset, length), literals)
            /\ LiesBefore(L(offset, length), Len(literals), Len(literals) + length, offset)
        <5>1. L(offset, length) \in Seq(Int)
          BY <4>1, MatchRepeats, Zenon
        <5>2. Len(L(offset, length)) \in {Len(literals) + length}
          BY <4>1, MatchRepeats, Zenon
        <5>3. BeginsWith(L(offset, length), literals)
          BY <4>1, MatchRepeats, Zenon
        <5>4. LiesBefore(L(offset, length), Len(literals), Len(literals) + length, offset)
          BY <4>1, MatchRepeats, Zenon
        <5> HIDE DEF L
        <5> QED BY <5>1, <5>2, <5>3, <5>4
      <4> HIDE DEF L
      <4>3. longer = L(offset, length)
        BY DEF L, offset, length
      <4> HIDE DEF longer
      <4>4. \A q \in 1 .. Len(literals) : longer[q] = literals[q]
        BY <4>2, <4>3 DEF BeginsWith
      <4>5. \A x \in Len(literals) .. (Len(literals) + length) - 1 : longer[x + 1] = ByteAt(longer, x - offset)
        BY <4>2, <4>3 DEF LiesBefore
      <4> QED BY <4>2, <4>3, <4>4, <4>5 DEF offset, length
    <3> HIDE DEF longer
    <3>2. data = longer
      BY <2>4 DEF longer
    <3> QED BY <2>2, <3>1, <3>2
  <2>7. (n + s.length) - 1 = e.ip + s.lit + s.length - 1 /\ n + s.length = e.ip + s.lit + s.length
    BY <1>2, SMTT(60)
  <2> QED BY <2>6, <2>7
<1> HIDE DEF data, literals
<1>8. \A q \in 1 .. e.ip : data[q] = e.data[q]
  <2>1. \A q \in 1 .. e.ip : q \in 1 .. e.ip + s.lit
    BY <1>2, SMT
  <2> QED BY <1>6, <1>7, <2>1
<1>9. LiteralIn(data, p)
  <2>1. ASSUME NEW x \in e.ip .. e.ip + s.lit - 1 PROVE data[x + 1] = x
    <3>1. x + 1 \in 1 .. e.ip + s.lit
      BY <1>2, SMT
    <3> QED BY <1>6, <1>7, <3>1
  <2> QED BY <1>4, <2>1 DEF LiteralIn
<1>10. MatchIn(data, p) /\ MatchPlaced(p, e.n, e.dict)
  BY <1>3, <1>4, <1>7 DEF MatchIn, MatchPlaced
<1> HIDE DEF f, p
<1>11. CASE f.status = "failed"
  BY <1>1, <1>11 DEF EncoderTells, GaveUp, Goes, f
<1>12. CASE /\ f.status = e.status /\ f.op = e.op + SequenceSize(s) /\ f.seqs = Append(e.seqs, p)
            /\ f.ip = e.ip + s.lit + s.length /\ f.data = data
  <2>1. Goes(f) /\ ~ GaveUp(f)
    BY <1>2, <1>12 DEF Goes, GaveUp
  <2>2. Tells(Append(e.seqs, p), data, e.ip + p.lit + p.length, e.n, e.dict)
    BY <1>2, <1>4, <1>5, <1>7, <1>8, <1>9, <1>10, TellsMore, ZenonT(60)
  <2>3. Tells(f.seqs, f.data, f.ip, f.n, f.dict)
    BY <1>1, <1>4, <1>12, <2>2
  <2>4. ASSUME NEW i \in 1 .. Len(f.seqs) PROVE f.seqs[i].token <= f.op
    <3>1. CASE i \in 1 .. Len(e.seqs)
      <4> DEFINE token == e.seqs[i].token
                 size == SequenceSize(s)
      <4>1. f.seqs[i] = e.seqs[i]
        BY <1>2, <1>4, <1>12, <3>1
      <4>2. e.seqs[i] \in PlacedSequence
        BY <1>2, <3>1
      <4>3. token \in Nat
        BY <4>2 DEF PlacedSequence
      <4>4. token <= e.op
        BY <3>1 DEF EncoderTells
      <4>5. size \in Nat /\ f.op = e.op + size /\ f.seqs[i].token = token
        BY <1>3, <1>12, <4>1
      <4> HIDE DEF token, size
      <4> QED BY <1>2, <4>3, <4>4, <4>5, SMT
    <3>2. CASE i = Len(e.seqs) + 1
      <4> DEFINE size == SequenceSize(s)
      <4>1. f.seqs[i] = p
        BY <1>2, <1>4, <1>12, <3>2
      <4>2. size \in Nat /\ f.op = e.op + size /\ f.seqs[i].token = e.op
        BY <1>3, <1>4, <1>12, <4>1
      <4> HIDE DEF size
      <4> QED BY <1>2, <4>2, SMT
    <3> QED BY <1>2, <1>4, <1>12, <3>1, <3>2
  <2>5. f.ip + 5 <= f.n
    BY <1>1, <1>3, <1>12
  <2> QED BY <2>1, <2>3, <2>4, <2>5 DEF EncoderTells, f
<1> QED BY <1>1, <1>11, <1>12

\* The last literals say the rest of it.
LEMMA EncodeLastTells ==
  ASSUME NEW e, EncoderSound(e), EncoderLaid(e), EncoderTells(e), Goes(e)
  PROVE  EncoderTells(EncodeLast(e))
<1> DEFINE f == EncodeLast(e)
           last == [lit |-> e.n - e.ip, offset |-> 0, length |-> 0]
           p == Placed(e, last)
           lit == e.n - e.ip
           data == e.data \o [i \in 1 .. lit |-> e.ip + i - 1]
<1>1. /\ f.dict = e.dict /\ f.n = e.n
      /\ \/ f.status = "failed"
         \/ /\ f.status = "encoded" /\ f.op = e.op + SequenceSize(last) /\ f.seqs = Append(e.seqs, p)
            /\ f.ip = e.n /\ f.data = data
  BY ZenonT(60) DEF EncodeLast, EncoderSound, IsEncoder, IsRecord
<1>2. /\ e.op \in Nat /\ e.ip \in Nat /\ e.n \in Nat /\ e.ip <= e.n /\ ~ GaveUp(e)
      /\ e.seqs \in Seq(PlacedSequence) /\ e.dict \in Nat
  BY DEF EncoderSound, IsEncoder, Compact, Goes, GaveUp, EncoderLaid, Row
<1>3. lit \in Nat /\ e.ip + lit = e.n /\ e.ip + lit + 0 = e.n
  BY <1>2, SMT
<1>4. /\ p \in PlacedSequence /\ p.token = e.op /\ p.at = e.ip /\ p.lit = lit /\ p.length = 0 /\ p.offset = 0
      /\ last.lit = lit /\ last.length = 0
  BY <1>2, <1>3 DEF Placed, PlacedSequence
<1>5. Tells(e.seqs, e.data, e.ip, e.n, e.dict) /\ e.data \in Seq(Int) /\ Len(e.data) = e.ip
  BY <1>2 DEF EncoderTells, Tells
<1> HIDE DEF lit
<1>6. /\ data \in Seq(Int) /\ Len(data) = e.ip + lit
      /\ \A q \in 1 .. e.ip : data[q] = e.data[q]
      /\ \A x \in e.ip .. e.ip + lit - 1 : data[x + 1] = x
  <2> DEFINE L(n) == e.data \o [i \in 1 .. lit |-> n + i - 1]
  <2>1. L(Len(e.data)) = data
    BY <1>5
  <2>2. /\ L(Len(e.data)) \in Seq(Int) /\ Len(L(Len(e.data))) = Len(e.data) + lit
        /\ \A q \in 1 .. Len(e.data) : L(Len(e.data))[q] = e.data[q]
        /\ \A x \in Len(e.data) .. Len(e.data) + lit - 1 : L(Len(e.data))[x + 1] = x
    BY <1>3, <1>5, LiteralsAppended
  <2> HIDE DEF L, data
  <2> QED BY <1>5, <2>1, <2>2
<1> HIDE DEF data
<1>7. LiteralIn(data, p)
  BY <1>4, <1>6 DEF LiteralIn
<1>8. MatchIn(data, p)
  <2>1. e.ip + lit .. e.ip + lit + 0 - 1 = {}
    BY <1>2, <1>3, SMT
  <2> QED BY <1>4, <2>1 DEF MatchIn
<1>9. SequenceSize(last) \in Nat /\ SequenceSize(last) >= 1 + lit
  <2>1. LengthBytes(lit, 15) \in Nat
    BY <1>3, LengthBytesBound
  <2>2. SequenceSize(last) = 1 + LengthBytes(lit, 15) + lit
    BY <1>3, <1>4, SequenceSizes
  <2> QED BY <1>3, <2>1, <2>2, SMT
<1> HIDE DEF f, p, last
<1>10. CASE f.status = "failed"
  BY <1>1, <1>10 DEF EncoderTells, GaveUp, Goes, f
<1>11. CASE /\ f.status = "encoded" /\ f.op = e.op + SequenceSize(last) /\ f.seqs = Append(e.seqs, p)
            /\ f.ip = e.n /\ f.data = data
  <2>1. ~ Goes(f) /\ ~ GaveUp(f)
    BY <1>11 DEF Goes, GaveUp
  <2>2. Tells(Append(e.seqs, p), data, e.ip + p.lit + p.length, e.n, e.dict)
    <3>1. Len(data) = e.ip + p.lit + p.length
      BY <1>3, <1>4, <1>6
    <3> QED BY <1>2, <1>4, <1>5, <1>6, <1>7, <1>8, <3>1, TellsMore
  <2>3. Tells(f.seqs, f.data, f.ip, f.n, f.dict)
    BY <1>1, <1>3, <1>4, <1>11, <2>2
  <2>4. /\ Len(f.seqs) = Len(e.seqs) + 1 /\ Len(e.seqs) \in Nat /\ f.seqs[Len(f.seqs)] = p
        /\ \A i \in 1 .. Len(e.seqs) : f.seqs[i] = e.seqs[i]
    BY <1>2, <1>4, <1>11
  <2>5. ASSUME NEW i \in 1 .. Len(f.seqs), i > 1 PROVE f.seqs[i].token + 6 <= f.op
    <3>1. e.seqs # << >>
      BY <2>4, <2>5
    <3>2. e.ip + 5 <= e.n
      BY <3>1 DEF EncoderTells
    <3>3. f.op >= e.op + 6
      BY <1>2, <1>3, <1>9, <1>11, <3>2, SMTT(60)
    <3>4. f.seqs[i].token \in Nat /\ f.seqs[i].token <= e.op
      <4>1. CASE i \in 1 .. Len(e.seqs)
        <5>1. e.seqs[i] \in PlacedSequence /\ f.seqs[i] = e.seqs[i]
          BY <1>2, <2>4, <4>1
        <5>2. e.seqs[i].token \in Nat
          BY <5>1 DEF PlacedSequence
        <5>3. e.seqs[i].token <= e.op
          BY <4>1 DEF EncoderTells
        <5> QED BY <5>1, <5>2, <5>3
      <4>2. CASE i = Len(e.seqs) + 1
        BY <1>2, <1>4, <2>4, <4>2
      <4> QED BY <2>4, <4>1, <4>2
    <3>5. f.op \in Nat
      BY <1>2, <1>9, <1>11
    <3> QED BY <1>2, <3>3, <3>4, <3>5, SMT
  <2>6. f.ip = f.n /\ f.seqs[Len(f.seqs)].length = 0
    BY <1>1, <1>4, <1>11, <2>4
  <2> QED BY <2>1, <2>3, <2>5, <2>6 DEF EncoderTells, MoreBehind, f
<1> QED BY <1>1, <1>10, <1>11

\* Nothing written says that there is nothing yet.
LEMMA EncoderBeginsTells ==
  ASSUME NEW n, NEW dict, NEW hc, NEW room
  PROVE  EncoderTells(Encoder(n, dict, hc, room))
<1> DEFINE e == Encoder(n, dict, hc, room)
<1>1. e.seqs = << >> /\ e.ip = 0 /\ e.data = << >> /\ e.status = "encoding"
  BY DEF Encoder
<1> HIDE DEF e
<1>2. Goes(e) /\ ~ GaveUp(e)
  BY <1>1 DEF Goes, GaveUp
<1>3. Tells(e.seqs, e.data, e.ip, e.n, e.dict)
  BY <1>1 DEF Tells, Start
<1> QED BY <1>1, <1>2, <1>3 DEF EncoderTells, e

-----------------------------------------------------------------------------
\* What has been decoded is what the block says, as far as the decoder has come;
\* a whole block is decoded to its end, when there is room for it.
Whole(d, b) == d.iend = b.size /\ d.cap >= b.n

DecoderTells(d, b) ==
  /\ d.dict = b.dict
  /\ ~ Failed(d) => Buffer(d.mem, d.cap) /\ Correct(d.mem, b.data, d.op) /\ (Decoding(d) \/ Finished(d))
  /\ Decoding(d) => d.op = Now(d).at
  /\ Finished(d) => d.op <= b.n /\ (d.iend = b.size => d.op = b.n)
  /\ Whole(d, b) => ~ Failed(d)

\* What is known of the sequence a decoder is at.
LEMMA AtSequence ==
  ASSUME NEW b, BlockSound(b), BlockTells(b), NEW d, DecoderSound(d, b), Decoding(d), DecoderTells(d, b)
  PROVE  /\ d.k \in 1 .. Len(b.seqs) /\ Len(b.seqs) \in Nat /\ d.seqs = b.seqs
         /\ Now(d).at \in Nat /\ Now(d).lit \in Nat /\ Now(d).offset \in Nat /\ Now(d).length \in Nat
         /\ Now(d).length = 0 \/ Now(d).length >= 4
         /\ Now(d).length = 0 <=> d.k = Len(b.seqs)
         /\ Start(b.seqs, b.n, d.k + 1) = Now(d).at + Now(d).lit + Now(d).length
         /\ Now(d).at + Now(d).lit + Now(d).length <= b.n
         /\ LiteralIn(b.data, Now(d)) /\ MatchIn(b.data, Now(d))
         /\ Now(d).length = 0 \/ MatchPlaced(Now(d), b.n, b.dict)
         /\ d.op = Now(d).at
<1>1. /\ d.k \in 1 .. Len(b.seqs) /\ Len(b.seqs) \in Nat /\ d.seqs = b.seqs /\ Now(d) = b.seqs[d.k]
  BY DEF BlockSound, DecoderSound, OnWay, Now
<1>2. b.seqs[d.k] \in PlacedSequence /\ (b.seqs[d.k].length = 0 \/ b.seqs[d.k].length >= 4)
  BY <1>1 DEF BlockSound, Row
<1>3. /\ Now(d).at \in Nat /\ Now(d).lit \in Nat /\ Now(d).offset \in Nat /\ Now(d).length \in Nat
      /\ Now(d).length = 0 \/ Now(d).length >= 4
  BY <1>1, <1>2 DEF PlacedSequence
<1>4. Now(d).length = 0 <=> d.k = Len(b.seqs)
  <2>1. d.k = Len(b.seqs) => Now(d).length = 0
    BY <1>1 DEF BlockTells
  <2>2. d.k # Len(b.seqs) => Now(d).length >= 4
    <3>1. d.k # Len(b.seqs) => d.k \in 1 .. Len(b.seqs) - 1
      BY <1>1, SMT
    <3> QED BY <1>1, <3>1 DEF BlockSound, HaveMatches
  <2> QED BY <1>3, <2>1, <2>2
<1>5. Tells(b.seqs, b.data, b.n, b.n, b.dict)
  BY DEF BlockTells
<1>6. /\ Start(b.seqs, b.n, d.k + 1) = Now(d).at + Now(d).lit + Now(d).length
      /\ Now(d).at + Now(d).lit + Now(d).length <= b.n
      /\ LiteralIn(b.data, Now(d)) /\ MatchIn(b.data, Now(d))
      /\ Now(d).length = 0 \/ MatchPlaced(Now(d), b.n, b.dict)
  BY <1>1, <1>5, Zenon DEF Tells
<1> QED BY <1>1, <1>3, <1>4, <1>6 DEF DecoderTells

\* A decoder at a sequence of a block has what Right asks for.
LEMMA BlockRight ==
  ASSUME NEW b, BlockSound(b), BlockTells(b), NEW d, DecoderSound(d, b), Decoding(d), DecoderTells(d, b)
  PROVE  Right(d, b.data)
<1>1. Buffer(d.mem, d.cap) /\ Correct(d.mem, b.data, d.op)
  BY DEF DecoderTells, Decoding, Failed
<1>2. /\ LiteralIn(b.data, Now(d)) /\ MatchIn(b.data, Now(d)) /\ Now(d).at = d.op
      /\ Now(d).length = 0 \/ MatchPlaced(Now(d), b.n, b.dict)
      /\ Now(d).at \in Nat /\ Now(d).lit \in Nat /\ Now(d).offset \in Nat /\ b.dict \in Nat
  BY AtSequence DEF BlockSound
<1>3. Now(d).length = 0 \/ Now(d).offset >= 1
  <2> DEFINE offset == Now(d).offset
             far == Now(d).at + Now(d).lit + b.dict
  <2>1. Now(d).length = 0 \/ offset \in 1 .. far
    BY <1>2 DEF MatchPlaced
  <2>2. offset \in Nat /\ far \in Nat
    BY <1>2
  <2> HIDE DEF offset, far
  <2>3. Now(d).length = 0 \/ offset >= 1
    BY <2>1, <2>2
  <2> QED BY <2>3 DEF offset
<1> QED BY <1>1, <1>2, <1>3 DEF Right

\* Of a whole block nothing is missing.
LEMMA WholeSuffices ==
  ASSUME NEW b, BlockSound(b), BlockTells(b), NEW d, DecoderSound(d, b), Decoding(d), DecoderTells(d, b),
         Whole(d, b)
  PROVE  Sufficient(d, LiteralsIp(d))
<1> DEFINE lit == Now(d).lit
           length == Now(d).length
           offset == Now(d).offset
           bytes == LengthBytes(Now(d).lit, 15)
           more == LengthSize(d)
           size == SequenceSize(Now(d))
           ip == d.ip
           op == d.op
           cap == d.cap
           iend == d.iend
           n == b.n
           dict == d.dict
<1>1. /\ d.k \in 1 .. Len(b.seqs) /\ Len(b.seqs) \in Nat /\ d.seqs = b.seqs
      /\ Now(d).at \in Nat /\ lit \in Nat /\ offset \in Nat /\ length \in Nat
      /\ length = 0 \/ length >= 4
      /\ length = 0 <=> d.k = Len(b.seqs)
      /\ Now(d).at + Now(d).lit + Now(d).length <= b.n
      /\ length = 0 \/ MatchPlaced(Now(d), b.n, b.dict)
      /\ op = Now(d).at /\ dict = b.dict
  BY AtSequence DEF DecoderTells
<1>2. /\ Place(d.seqs, b.size, d.k + 1) = ip + size
      /\ AtToken(d)
      /\ length = 0 => size = 1 + bytes + lit
      /\ length >= 4 => size = 1 + bytes + lit + 2 + more
  BY <1>1, OnWayAtToken, SequenceSizes DEF Size, LengthSize
<1>3. bytes \in Nat /\ more \in Nat /\ ip \in Nat /\ op \in Nat /\ cap \in Nat /\ iend \in Nat /\ n \in Nat
      /\ dict \in Nat
  BY <1>2, SizeParts DEF AtToken, AtWork, IsDecoder, BlockSound
<1>4. iend = b.size /\ cap >= n
  BY DEF Whole
<1>5. op + lit + length <= n
  BY <1>1
<1>6. length >= 4 => offset \in 1 .. op + lit + dict /\ op + lit + 12 <= n /\ op + lit + length + 5 <= n
  <2>1. length >= 4 => MatchPlaced(Now(d), b.n, b.dict)
    BY <1>1
  <2> QED BY <1>1, <2>1 DEF MatchPlaced
<1>7. LiteralsIp(d) = ip + 1 + bytes
  BY DEF LiteralsIp
<1>8. length = 0 => ip + size = iend
  <2>1. length = 0 => ~ (d.k + 1 <= Len(b.seqs))
    BY <1>1
  <2> QED BY <1>1, <1>2, <1>4, <2>1 DEF Place
<1>9. length >= 4 => ip + size + 6 <= iend
  <2> SUFFICES ASSUME length >= 4 PROVE ip + size + 6 <= iend
    OBVIOUS
  <2>1. d.k # Len(b.seqs)
    BY <1>1
  <2>2. d.k + 1 \in 1 .. Len(b.seqs) /\ d.k + 1 > 1 /\ d.k + 1 <= Len(b.seqs)
    <3> HIDE DEF length
    <3> QED BY <1>1, <2>1, SMT
  <2>3. b.seqs[d.k + 1].token + 6 <= b.size
    BY <2>2 DEF BlockTells, MoreBehind
  <2>4. b.seqs[d.k + 1].token = ip + size
    BY <1>1, <1>2, <2>2 DEF Place
  <2> QED BY <1>4, <2>3, <2>4
<1>10. length = 0 => ip + 1 + bytes + lit = iend /\ op + lit <= cap
  <2> HIDE DEF lit, length, bytes, size, ip, op, cap, iend, n
  <2> QED BY <1>1, <1>2, <1>3, <1>4, <1>5, <1>8, SMT
<1>11. length >= 4 => /\ ip + 1 + bytes + lit + 2 + more + 6 <= iend
                      /\ op + lit + 12 <= cap /\ op + lit + length + 5 <= cap
                      /\ offset <= op + lit + dict
  <2>1. /\ offset \in Nat /\ lit \in Nat /\ length \in Nat /\ cap >= n
        /\ length >= 4 => size = 1 + bytes + lit + 2 + more
    BY <1>1, <1>2, <1>4
  <2>5. /\ bytes \in Nat /\ more \in Nat /\ ip \in Nat /\ op \in Nat /\ cap \in Nat /\ iend \in Nat /\ n \in Nat
        /\ dict \in Nat
    BY <1>3
  <2>6. length >= 4 => offset \in 1 .. op + lit + dict /\ op + lit + 12 <= n /\ op + lit + length + 5 <= n
    BY <1>6
  <2>7. length >= 4 => ip + size + 6 <= iend
    BY <1>9
  <2> HIDE DEF lit, length, bytes, size, ip, op, cap, iend, n, offset, dict, more
  <2>8. CASE length >= 4
    <3>1. op + lit + 12 <= cap
      BY <2>1, <2>5, <2>6, <2>8
    <3>2. offset <= op + lit + dict
      BY <2>1, <2>5, <2>6, <2>8
    <3>3. op + lit + length + 5 <= cap
      BY <2>1, <2>5, <2>6, <2>8
    <3>4. size = 1 + bytes + lit + 2 + more /\ ip + size + 6 <= iend
      BY <2>1, <2>7, <2>8
    <3>5. ip + 1 + bytes + lit + 2 + more + 6 <= iend
      BY <2>1, <2>5, <3>4
    <3> QED BY <3>1, <3>2, <3>3, <3>5
  <2> QED BY <2>8
<1> QED BY <1>7, <1>10, <1>11 DEF Sufficient

\* A turn of either loop.
LEMMA TurnTells ==
  ASSUME NEW b, BlockSound(b), BlockTells(b), NEW d, DecoderSound(d, b), Decoding(d), DecoderTells(d, b),
         NEW f, Turns(f, d, d.ip + Size(d)), Delivers(f, d, b.data, LiteralsIp(d)),
         Sufficient(d, LiteralsIp(d)) => ~ Failed(f)
  PROVE  DecoderTells(f, b) /\ f.cap = d.cap /\ f.iend = d.iend
<1> DEFINE lit == Now(d).lit
           length == Now(d).length
           bytes == LengthBytes(Now(d).lit, 15)
           size == SequenceSize(Now(d))
<1>1. f.dict = d.dict /\ f.cap = d.cap /\ f.iend = d.iend /\ f.seqs = d.seqs /\ d.seqs = b.seqs /\ d.dict = b.dict
  BY DEF Turns, Ends, Arrives, SameBlock, DecoderSound, DecoderTells
<1>2. /\ d.k \in 1 .. Len(b.seqs) /\ Len(b.seqs) \in Nat
      /\ d.op = Now(d).at /\ Now(d).at \in Nat /\ lit \in Nat /\ length \in Nat
      /\ length = 0 \/ length >= 4
      /\ length = 0 <=> d.k = Len(b.seqs)
      /\ Start(b.seqs, b.n, d.k + 1) = d.op + lit + length
      /\ d.op + lit + length <= b.n
  BY AtSequence
<1>3. DecoderSound(f, b)
  BY TurnSound
<1>4. ~ Failed(f) => Buffer(f.mem, f.cap) /\ Correct(f.mem, b.data, f.op) /\ (Decoding(f) \/ Finished(f))
  BY <1>1 DEF Delivers
<1>5. ASSUME Decoding(f) PROVE f.op = Now(f).at
  <2>1. f.op = d.op + lit + length
    BY <1>5 DEF Delivers, Failed, Decoding
  <2>2. f.k = d.k + 1
    BY <1>5 DEF Turns, Ends, Arrives
  <2>3. f.k \in 1 .. Len(b.seqs)
    BY <1>1, <1>3, <1>5 DEF DecoderSound, OnWay
  <2>4. Start(b.seqs, b.n, d.k + 1) = Now(f).at
    <3>1. f.k <= Len(b.seqs)
      BY <1>2, <2>3
    <3> QED BY <1>1, <2>2, <3>1 DEF Start, Now
  <2> QED BY <1>2, <2>1, <2>4
<1>6. ASSUME Finished(f) PROVE f.op <= b.n /\ (f.iend = b.size => f.op = b.n)
  <2>1. f.op = d.op + lit /\ LiteralsIp(d) + lit = d.iend
    BY <1>6 DEF Delivers, Failed, Finished
  <2>2. /\ Place(d.seqs, b.size, d.k + 1) = d.ip + size
        /\ AtToken(d)
        /\ length >= 4 => size = Size(d)
    BY OnWayAtToken
  <2>3. /\ bytes \in Nat /\ LengthSize(d) \in Nat /\ d.ip \in Nat /\ d.op \in Nat /\ d.iend \in Nat /\ b.n \in Nat
        /\ b.size \in Nat
    BY <2>2, SizeParts DEF AtToken, AtWork, IsDecoder, BlockSound
  <2>4. LiteralsIp(d) = d.ip + 1 + bytes /\ Size(d) = 1 + bytes + lit + 2 + LengthSize(d)
    BY DEF LiteralsIp, Size
  <2>5. f.op <= b.n
    <3> HIDE DEF lit, length
    <3> QED BY <1>2, <2>1, <2>3, SMT
  <2>6. ASSUME f.iend = b.size, length >= 4 PROVE FALSE
    <3>1. d.k # Len(b.seqs)
      <4> HIDE DEF length
      <4> QED BY <1>2, <2>6
    <3>2. d.k + 1 \in 1 .. Len(b.seqs) /\ d.k + 1 > 1 /\ d.k + 1 <= Len(b.seqs)
      <4> HIDE DEF length, lit
      <4> QED BY <1>2, <3>1, SMT
    <3>3. b.seqs[d.k + 1].token + 6 <= b.size
      BY <3>2 DEF BlockTells, MoreBehind
    <3>4. b.seqs[d.k + 1].token = d.ip + size
      BY <1>1, <2>2, <3>2 DEF Place
    <3> DEFINE more == LengthSize(d)
    <3>5. size = 1 + bytes + lit + 2 + more /\ d.ip + size + 6 <= b.size /\ d.ip + 1 + bytes + lit = b.size /\ more \in Nat
      BY <1>1, <2>1, <2>2, <2>3, <2>4, <2>6, <3>3, <3>4
    <3> HIDE DEF lit, length, bytes, size, more
    <3> QED BY <1>2, <2>3, <3>5, SMT
  <2>7. ASSUME f.iend = b.size, length = 0 PROVE f.op = b.n
    <3>1. ~ (d.k + 1 <= Len(b.seqs))
      <4> HIDE DEF length, lit
      <4> QED BY <1>2, <2>7
    <3>2. b.n = d.op + lit + length
      BY <1>2, <3>1 DEF Start
    <3> HIDE DEF lit, length
    <3> QED BY <1>2, <2>1, <2>3, <2>7, <3>2, SMT
  <2> QED BY <1>2, <2>5, <2>6, <2>7
<1>7. Whole(f, b) => ~ Failed(f)
  <2>1. Whole(f, b) => Whole(d, b)
    BY <1>1 DEF Whole
  <2> QED BY <2>1, WholeSuffices
<1> QED BY <1>1, <1>4, <1>5, <1>6, <1>7 DEF DecoderTells

\* A turn of either loop keeps what a decoder tells.
LEMMA LoopTells ==
  ASSUME NEW b, BlockSound(b), BlockTells(b), NEW d, DecoderSound(d, b), Decoding(d), DecoderTells(d, b)
  PROVE  LET f == IF d.fast THEN FastSequence(d) ELSE SafeSequence(d)
         IN  DecoderTells(f, b) /\ f.cap = d.cap /\ f.iend = d.iend
<1> DEFINE f == IF d.fast THEN FastSequence(d) ELSE SafeSequence(d)
           Told(g) == DecoderTells(g, b) /\ g.cap = d.cap /\ g.iend = d.iend
<1>1. AtToken(d) /\ Right(d, b.data)
  BY OnWayAtToken, BlockRight
<1>2. ASSUME d.fast PROVE Told(FastSequence(d))
  <2>1. d.op + 64 <= d.cap
    BY <1>2 DEF DecoderSound, OnWay, RoomAhead
  <2>2. /\ Turns(FastSequence(d), d, d.ip + Size(d))
        /\ Delivers(FastSequence(d), d, b.data, LiteralsIp(d))
        /\ Sufficient(d, LiteralsIp(d)) => ~ Failed(FastSequence(d))
    BY <1>1, <2>1, FastSequenceTurns, FastSequenceDelivers
  <2> QED BY <2>2, TurnTells
<1>3. ASSUME ~ d.fast PROVE Told(SafeSequence(d))
  <2>1. /\ Turns(SafeSequence(d), d, d.ip + Size(d))
        /\ Delivers(SafeSequence(d), d, b.data, LiteralsIp(d))
        /\ Sufficient(d, LiteralsIp(d)) => ~ Failed(SafeSequence(d))
    BY <1>1, <1>3, SafeSequenceTurns, SafeSequenceDelivers
  <2> QED BY <2>1, TurnTells
<1> HIDE DEF Told
<1>4. Told(f)
  BY <1>2, <1>3
<1> QED BY <1>4 DEF Told, f

\* A decoder begins with nothing decoded; a whole block with room is not refused.
LEMMA DecoderBeginsTells ==
  ASSUME NEW b, BlockSound(b), BlockTells(b), NEW iend \in Nat, iend <= b.size, NEW cap \in Nat, NEW fast
  PROVE  LET d == Decoder(b, iend, cap, fast)
         IN  DecoderTells(d, b) /\ d.cap = cap /\ d.iend = iend
<1> DEFINE d == Decoder(b, iend, cap, fast)
           s == b.seqs[1]
<1>1. /\ d.seqs = b.seqs /\ d.dict = b.dict /\ d.iend = iend /\ d.cap = cap
      /\ d.k = 1 /\ d.ip = 0 /\ d.op = 0 /\ Buffer(d.mem, cap)
  BY DEF Decoder, Buffer
<1>2. d.status = IF cap = 0
                 THEN IF iend = 1 /\ s.lit = 0 /\ s.length \in {0, 4} THEN "done" ELSE "error"
                 ELSE IF iend = 0 THEN "error" ELSE "decoding"
  BY DEF Decoder, IsToken0, MINMATCH
<1> HIDE DEF d
<1>3. /\ 1 \in 1 .. Len(b.seqs) /\ Len(b.seqs) \in Nat /\ Len(b.seqs) # 0 /\ b.n \in Nat /\ b.size \in Nat
      /\ s \in PlacedSequence /\ s.token = 0
      /\ Place(b.seqs, b.size, 1 + 1) = s.token + SequenceSize(s)
      /\ s.length = 0 \/ s.length >= 4
  BY DEF BlockSound, Row, Place
<1>4. s.at \in Nat /\ s.lit \in Nat /\ s.length \in Nat
  BY <1>3 DEF PlacedSequence
<1>5. /\ Start(b.seqs, b.n, 1) = 0
      /\ Start(b.seqs, b.n, 1 + 1) = s.at + s.lit + s.length
      /\ s.at + s.lit + s.length <= b.n
  BY <1>3, Zenon DEF BlockTells, Tells
<1>6. s.at = 0
  BY <1>3, <1>5 DEF Start
<1>7. s.length = 0 => Len(b.seqs) = 1
  <2>1. Len(b.seqs) # 1 => 1 \in 1 .. Len(b.seqs) - 1
    <3> DEFINE count == Len(b.seqs)
    <3>1. count \in Nat /\ count # 0
      BY <1>3
    <3> HIDE DEF count
    <3>2. count # 1 => 1 \in 1 .. count - 1
      BY <3>1, SMT
    <3> QED BY <3>2 DEF count
  <2>2. Len(b.seqs) # 1 => s.length >= 4
    BY <2>1 DEF BlockSound, HaveMatches
  <2> QED BY <1>4, <2>2
<1>8. Len(b.seqs) = 1 => b.n = s.at + s.lit + s.length /\ b.size = SequenceSize(s)
  <2>1. SequenceSize(s) \in Nat
    BY <1>3, <1>4, SequenceSizes
  <2> QED BY <1>3, <1>5, <2>1 DEF Start, Place
<1>9. /\ b.size >= 1
      /\ Len(b.seqs) # 1 => b.size >= 6
  <2>1. CASE Len(b.seqs) = 1
    <3>1. s.length = 0
      BY <2>1 DEF BlockTells
    <3>2. b.size = 1 + LengthBytes(s.lit, 15) + s.lit /\ LengthBytes(s.lit, 15) \in Nat
      BY <1>4, <1>8, <2>1, <3>1, SequenceSizes, LengthBytesBound
    <3> DEFINE bytes == LengthBytes(s.lit, 15)
    <3>3. b.size = 1 + bytes + s.lit /\ bytes \in Nat
      BY <3>2
    <3>4. b.size >= 1
      <4> HIDE DEF bytes, s
      <4> QED BY <1>4, <3>3, SMT
    <3> QED BY <2>1, <3>4
  <2>2. CASE Len(b.seqs) # 1
    <3>1. 2 \in 1 .. Len(b.seqs) /\ 2 > 1
      <4> DEFINE count == Len(b.seqs)
      <4>1. count \in Nat /\ count # 0 /\ count # 1
        BY <1>3, <2>2
      <4> HIDE DEF count
      <4>2. 2 \in 1 .. count /\ 2 > 1
        BY <4>1, SMT
      <4> QED BY <4>2 DEF count
    <3>2. b.seqs[2].token + 6 <= b.size
      BY <3>1 DEF BlockTells, MoreBehind
    <3>3. b.seqs[2].token \in Nat
      <4>1. b.seqs[2] \in PlacedSequence
        BY <3>1 DEF BlockSound, Row
      <4> QED BY <4>1 DEF PlacedSequence
    <3> QED BY <1>3, <3>2, <3>3, SMT
  <2> QED BY <2>1, <2>2
<1>10. Correct(d.mem, b.data, d.op)
  BY <1>1 DEF Correct
<1>11. Decoding(d) => d.op = Now(d).at
  BY <1>1, <1>6 DEF Now
<1>12. ASSUME Finished(d), iend = b.size PROVE b.n = 0
  <2>1. s.lit = 0 /\ iend = 1
    BY <1>2, <1>12 DEF Finished
  <2>2. Len(b.seqs) = 1
    BY <1>9, <1>12, <2>1
  <2>3. s.length = 0
    BY <2>2 DEF BlockTells
  <2> QED BY <1>6, <1>8, <2>1, <2>2, <2>3
<1>13. ASSUME Whole(d, b) PROVE ~ Failed(d)
  <2>1. iend = b.size /\ cap >= b.n
    BY <1>1, <1>13 DEF Whole
  <2>2. CASE cap = 0
    <3>1. s.lit = 0 /\ s.length = 0
      <4> HIDE DEF s
      <4> QED BY <1>3, <1>4, <1>5, <2>1, <2>2
    <3>2. b.size = 1 + LengthBytes(s.lit, 15) + s.lit
      BY <1>4, <1>7, <1>8, <3>1, SequenceSizes
    <3>3. LengthBytes(s.lit, 15) = 0
      BY <3>1 DEF LengthBytes
    <3>4. iend = 1
      BY <2>1, <3>1, <3>2, <3>3
    <3> QED BY <1>2, <2>2, <3>1, <3>4 DEF Failed
  <2>3. CASE cap # 0
    BY <1>2, <1>3, <1>9, <2>1, <2>3 DEF Failed
  <2> QED BY <2>2, <2>3
<1>14. Decoding(d) \/ Finished(d) \/ Failed(d)
  BY <1>2 DEF Decoding, Finished, Failed
<1>15. Finished(d) => d.op <= b.n /\ (d.iend = b.size => d.op = b.n)
  BY <1>1, <1>3, <1>12
<1>16. DecoderTells(d, b)
  BY <1>1, <1>10, <1>11, <1>13, <1>14, <1>15 DEF DecoderTells
<1> QED BY <1>1, <1>16 DEF d

-----------------------------------------------------------------------------
\* lz4.block: the sequences say what the content is, the block's too, and what a
\* decoder has written is that.
IsCall(c) == c \in [cut : Nat, room : Int, stored : BOOLEAN, raised : BOOLEAN]

Asked(c, b, d) ==
  /\ d.cap = c.room /\ d.iend = b.size - c.cut
  /\ c.stored => c.room = b.n

BlockCInv ==
  /\ EncoderTells(enc)
  /\ HasBlock => BlockTells(block)
  /\ IsCall(call)
  /\ IsDecompressing \/ Returned => DecoderTells(dec, block) /\ Asked(call, block, dec)
  /\ Returned => Finished(dec) /\ (call.stored => dec.op = call.room)
  /\ phase = "returned" /\ call.cut = 0 /\ call.room >= block.n => Returned

LEMMA NoCallIsCall == IsCall(NoCall)
BY DEF IsCall, NoCall

LEMMA InitBlockCInv == Init => BlockCInv
<1>1. EncoderTells(NoEncoder)
  BY EncoderBeginsTells DEF NoEncoder
<1> QED
  BY <1>1, NoCallIsCall DEF Init, BlockCInv, HasBlock, IsDecompressing, Returned

\* A step of the compressor and its end.
LEMMA CompressingTells ==
  ASSUME BlockIInv, BlockCInv, compress \/ LZ4F_makeBlock \/ EncodeMatch \/ EncodeLastLiterals \/ CompressReturns
  PROVE  BlockCInv'
<1>1. /\ call' = call /\ IsCall(call')
      /\ phase' # "decompressing" /\ phase' # "returned"
  BY DEF BlockCInv, compress, LZ4F_makeBlock, EncodeMatch, EncodeLastLiterals, Encoding, CompressReturns
<1>2. EncoderSound(enc) /\ EncoderLaid(enc) /\ EncoderTells(enc)
  BY DEF BlockIInv, BlockCInv
<1>3. SUFFICES EncoderTells(enc') /\ (HasBlock' => BlockTells(block'))
  BY <1>1 DEF BlockCInv, IsDecompressing, Returned
<1>4. CASE compress
  BY <1>4, EncoderBeginsTells DEF compress, HasBlock
<1>5. CASE LZ4F_makeBlock
  BY <1>5, EncoderBeginsTells DEF LZ4F_makeBlock, HasBlock
<1>6. CASE EncodeMatch
  <2>1. PICK s \in Matches, direct \in BOOLEAN :
          MatchAllowed(enc, s) /\ enc' = EncodeSequence(enc, s, direct)
    BY <1>6 DEF EncodeMatch
  <2>2. IsMatch(s)
    BY BlockAssumption DEF IsMatch
  <2>3. Goes(enc)
    BY <1>6 DEF EncodeMatch, Encoding, Goes
  <2>4. EncoderTells(enc')
    BY <1>2, <2>1, <2>2, <2>3, EncodeSequenceTells
  <2> QED
    BY <1>6, <2>4 DEF EncodeMatch, Encoding, HasBlock
<1>7. CASE EncodeLastLiterals
  <2>1. Goes(enc) /\ enc' = EncodeLast(enc)
    BY <1>7 DEF EncodeLastLiterals, Encoding, Goes
  <2>2. EncoderTells(enc')
    BY <1>2, <2>1, EncodeLastTells
  <2> QED
    BY <1>7, <2>2 DEF EncodeLastLiterals, Encoding, HasBlock
<1>8. CASE CompressReturns
  <2>1. EncoderTells(enc')
    BY <1>8, EncoderBeginsTells DEF CompressReturns, NoEncoder
  <2>2. CASE GaveUp(enc)
    BY <1>8, <2>1, <2>2 DEF CompressReturns, GaveUp, HasBlock
  <2>3. CASE ~ GaveUp(enc)
    <3>1. block' = [n |-> enc.n, dict |-> enc.dict, seqs |-> enc.seqs, data |-> enc.data, size |-> enc.op]
      BY <1>8, <2>3 DEF CompressReturns, GaveUp
    <3>2. ~ Goes(enc)
      BY <1>8 DEF CompressReturns, Goes
    <3>3. /\ Tells(enc.seqs, enc.data, enc.n, enc.n, enc.dict)
          /\ enc.seqs[Len(enc.seqs)].length = 0 /\ MoreBehind(enc.seqs, enc.op)
      BY <1>2, <2>3, <3>2 DEF EncoderTells
    <3>4. BlockTells(block')
      BY <3>1, <3>3 DEF BlockTells
    <3> QED
      BY <2>1, <3>4
  <2> QED
    BY <2>2, <2>3
<1> QED
  BY <1>4, <1>5, <1>6, <1>7, <1>8

\* A decoder begins on a block, with what decompress was asked for.
LEMMA BeginsAsked ==
  ASSUME NEW b, BlockSound(b), BlockTells(b), NEW c, IsCall(c), NEW fast,
         NEW d, d = Decoder(b, b.size - c.cut, c.room, fast),
         c.cut <= b.size, c.room >= 0, c.stored => c.room = b.n
  PROVE  DecoderTells(d, b) /\ Asked(c, b, d)
<1>1. b.size - c.cut \in Nat /\ b.size - c.cut <= b.size /\ c.room \in Nat
  <2> DEFINE cut == c.cut
             room == c.room
             size == b.size
  <2>1. cut \in Nat /\ room \in Int /\ size \in Nat /\ cut <= size /\ room >= 0
    BY DEF IsCall, BlockSound
  <2> HIDE DEF cut, room, size
  <2>2. size - cut \in Nat /\ size - cut <= size /\ room \in Nat
    BY <2>1, SMT
  <2> QED BY <2>2 DEF cut, room, size
<1> DEFINE iend == b.size - c.cut
           cap == c.room
<1>2. iend \in Nat /\ iend <= b.size /\ cap \in Nat /\ d = Decoder(b, iend, cap, fast)
  BY <1>1
<1> HIDE DEF iend, cap
<1>3. DecoderTells(d, b) /\ d.cap = cap /\ d.iend = iend
  BY <1>2, DecoderBeginsTells
<1> QED BY <1>3 DEF Asked, iend, cap

LEMMA DecompressTells ==
  ASSUME BlockIInv, BlockCInv, decompress
  PROVE  BlockCInv'
<1>1. /\ enc' = enc /\ block' = block /\ BlockSound(block) /\ BlockTells(block) /\ EncoderTells(enc)
      /\ phase = "compressed"
  BY DEF decompress, BlockIInv, BlockCInv, HasBlock
<1>2. PICK cut \in Cuts, fast \in BOOLEAN :
        \/ /\ cut <= block.size + hdr_size
           /\ call' = [cut |-> cut, room |-> block.n, stored |-> TRUE, raised |-> block.size - cut < 0]
           /\ \/ block.size - cut < 0 /\ phase' = "returned"
              \/ /\ ~ (block.size - cut < 0) /\ phase' = "decompressing"
                 /\ dec' = Decoder(block, block.size - cut, block.n, fast)
        \/ /\ cut <= block.size
           /\ \E extra \in Extra :
                /\ block.n + extra >= 0
                /\ call' = [cut |-> cut, room |-> block.n + extra, stored |-> FALSE, raised |-> FALSE]
                /\ dec' = Decoder(block, block.size - cut, block.n + extra, fast)
           /\ phase' = "decompressing"
  BY DEF decompress
<1>3. cut \in Nat /\ block.size \in Nat /\ block.n \in Nat
  BY <1>1, BlockAssumption DEF BlockSound
<1> DEFINE short == block.size - cut < 0
<1>asked. ASSUME call' = [cut |-> cut, room |-> block.n, stored |-> TRUE, raised |-> short]
      PROVE  IsCall(call') /\ call'.raised = short
  <2>1. short \in BOOLEAN /\ block.n \in Int
    BY <1>3
  <2> HIDE DEF short
  <2> QED BY <1>3, <1>asked, <2>1, Zenon DEF IsCall
<1>4. CASE /\ call' = [cut |-> cut, room |-> block.n, stored |-> TRUE, raised |-> block.size - cut < 0]
           /\ block.size - cut < 0 /\ phase' = "returned"
  <2>1. call'.raised /\ call'.cut = cut /\ IsCall(call')
    BY <1>4, <1>asked, Zenon
  <2>2. cut # 0
    BY <1>3, <1>4
  <2> QED
    BY <1>1, <1>4, <2>1, <2>2 DEF BlockCInv, IsDecompressing, Returned
<1>5. ASSUME IsCall(call'), phase' = "decompressing",
             dec' = Decoder(block, block.size - call'.cut, call'.room, fast),
             call'.cut <= block.size, call'.room >= 0, call'.stored => call'.room = block.n
      PROVE  BlockCInv'
  <2>1. DecoderTells(dec', block) /\ Asked(call', block, dec')
    BY <1>1, <1>5, BeginsAsked
  <2> QED
    BY <1>1, <1>5, <2>1 DEF BlockCInv, IsDecompressing, Returned
<1>6. CASE /\ call' = [cut |-> cut, room |-> block.n, stored |-> TRUE, raised |-> block.size - cut < 0]
           /\ ~ (block.size - cut < 0) /\ phase' = "decompressing"
           /\ dec' = Decoder(block, block.size - cut, block.n, fast)
  <2>1. call'.cut = cut /\ call'.room = block.n
    BY <1>6
  <2>2. IsCall(call')
    BY <1>6, <1>asked, Zenon
  <2>3. cut <= block.size /\ block.n >= 0
    BY <1>3, <1>6
  <2> QED
    BY <1>5, <1>6, <2>1, <2>2, <2>3
<1>7. CASE /\ cut <= block.size
           /\ \E extra \in Extra :
                /\ block.n + extra >= 0
                /\ call' = [cut |-> cut, room |-> block.n + extra, stored |-> FALSE, raised |-> FALSE]
                /\ dec' = Decoder(block, block.size - cut, block.n + extra, fast)
           /\ phase' = "decompressing"
  <2>1. PICK extra \in Extra :
          /\ block.n + extra >= 0
          /\ call' = [cut |-> cut, room |-> block.n + extra, stored |-> FALSE, raised |-> FALSE]
          /\ dec' = Decoder(block, block.size - cut, block.n + extra, fast)
    BY <1>7
  <2>2. call'.cut = cut /\ call'.room = block.n + extra /\ ~ call'.stored
    BY <2>1
  <2>3. block.n + extra \in Int
    BY <1>3, BlockAssumption
  <2>4. IsCall(call')
    BY <1>3, <2>1, <2>3 DEF IsCall
  <2> QED
    BY <1>5, <1>7, <2>1, <2>2, <2>4
<1> QED
  BY <1>2, <1>4, <1>6, <1>7

LEMMA LoopsTell ==
  ASSUME BlockIInv, BlockCInv, FastLoop \/ MainLoop
  PROVE  BlockCInv'
<1>1. /\ IsDecompressing /\ HasBlock /\ Decoding(dec)
      /\ enc' = enc /\ block' = block /\ phase' = phase /\ call' = call
      /\ dec' = IF dec.fast THEN FastSequence(dec) ELSE SafeSequence(dec)
      /\ phase = "decompressing"
  BY DEF FastLoop, MainLoop, IsDecompressing, HasBlock, Decoding
<1>2. /\ BlockSound(block) /\ DecoderSound(dec, block) /\ BlockTells(block) /\ DecoderTells(dec, block)
      /\ Asked(call, block, dec)
  BY <1>1 DEF BlockIInv, BlockCInv
<1>3. DecoderTells(dec', block) /\ dec'.cap = dec.cap /\ dec'.iend = dec.iend
  BY <1>1, <1>2, LoopTells
<1>4. Asked(call, block, dec')
  BY <1>2, <1>3 DEF Asked
<1> QED
  BY <1>1, <1>2, <1>3, <1>4 DEF BlockCInv, IsDecompressing, Returned

LEMMA ReturnTells ==
  ASSUME BlockIInv, BlockCInv, DecompressReturns
  PROVE  BlockCInv'
<1>1. /\ phase = "decompressing" /\ phase' = "returned" /\ enc' = enc /\ block' = block /\ dec' = dec
      /\ ~ Decoding(dec) /\ call' = [call EXCEPT !.raised = Raises]
  BY DEF DecompressReturns, Decoding
<1>2. /\ BlockSound(block) /\ BlockTells(block) /\ DecoderTells(dec, block) /\ Asked(call, block, dec)
      /\ IsCall(call) /\ EncoderTells(enc)
  BY <1>1 DEF BlockIInv, BlockCInv, HasBlock, IsDecompressing
<1>3. /\ call'.cut = call.cut /\ call'.room = call.room /\ call'.stored = call.stored
      /\ call'.raised = Raises /\ IsCall(call')
  <2>1. Raises \in BOOLEAN
    BY DEF Raises
  <2> HIDE DEF Raises
  <2> QED BY <1>1, <1>2, <2>1, Zenon DEF IsCall
<1>4. Asked(call', block, dec)
  BY <1>2, <1>3 DEF Asked
<1>5. ~ Raises => Finished(dec) /\ (call'.stored => dec.op = call'.room)
  BY <1>1, <1>2, <1>3 DEF Raises, DecoderTells, Failed
<1>6. ASSUME call'.cut = 0, call'.room >= block.n PROVE ~ Raises
  <2>1. dec.iend = block.size /\ dec.cap >= block.n
    BY <1>2, <1>3, <1>6 DEF Asked, BlockSound
  <2>2. ~ Failed(dec) /\ Finished(dec) /\ dec.op = block.n
    BY <1>1, <1>2, <2>1 DEF DecoderTells, Whole
  <2>3. call.stored => dec.op = call.room
    BY <1>2, <2>2 DEF Asked
  <2> QED BY <2>2, <2>3 DEF Raises, Failed
<1>7. Returned' <=> ~ Raises
  BY <1>1, <1>3, Zenon DEF Returned
<1> QED
  BY <1>1, <1>2, <1>3, <1>4, <1>5, <1>6, <1>7 DEF BlockCInv, HasBlock

LEMMA NextBlockCInv == BlockIInv /\ BlockCInv /\ [Next]_vars => BlockCInv'
<1> SUFFICES ASSUME BlockIInv, BlockCInv, [Next]_vars PROVE BlockCInv'
  OBVIOUS
<1>1. CASE compress \/ LZ4F_makeBlock \/ EncodeMatch \/ EncodeLastLiterals \/ CompressReturns
  BY <1>1, CompressingTells
<1>2. CASE decompress
  BY <1>2, DecompressTells
<1>3. CASE FastLoop \/ MainLoop
  BY <1>3, LoopsTell
<1>4. CASE DecompressReturns
  BY <1>4, ReturnTells
<1>5. CASE Again
  BY <1>5, NoCallIsCall DEF Again, BlockCInv, HasBlock, IsDecompressing, Returned
<1>6. CASE Done
  BY <1>6 DEF Done, BlockCInv, HasBlock, IsDecompressing, Returned
<1>7. CASE UNCHANGED vars
  BY <1>7 DEF vars, BlockCInv, HasBlock, IsDecompressing, Returned
<1> QED
  BY <1>1, <1>2, <1>3, <1>4, <1>5, <1>6, <1>7 DEF Next

LEMMA BlockInductive == Spec => [](BlockIInv /\ BlockCInv)
<1>1. Init => BlockIInv /\ BlockCInv
  BY InitBlockIInv, InitBlockCInv
<1>2. BlockIInv /\ BlockCInv /\ [Next]_vars => (BlockIInv /\ BlockCInv)'
  BY NextBlockIInv, NextBlockCInv
<1> QED
  BY <1>1, <1>2, PTL DEF Spec

\* What a decoder that has finished gives is the beginning of the data.
LEMMA ResultTrue ==
  ASSUME BlockIInv, BlockCInv, Returned
  PROVE  /\ dec.op \in Nat /\ dec.op <= block.n /\ block.data \in Seq(Int) /\ Len(block.data) = block.n
         /\ block.n \in Nat
         /\ Result = SubSeq(block.data, 1, dec.op)
         /\ call.cut = 0 => dec.op = block.n
<1>1. /\ BlockSound(block) /\ BlockTells(block) /\ DecoderTells(dec, block) /\ Asked(call, block, dec)
      /\ Finished(dec) /\ IsDecoder(dec) /\ IsCall(call)
  BY DEF BlockIInv, BlockCInv, Returned, HasBlock
<1>2. block.data \in Seq(Int) /\ Len(block.data) = block.n /\ block.n \in Nat /\ block.size \in Nat
  BY <1>1 DEF BlockTells, Tells, BlockSound
<1>3. dec.op \in Nat /\ dec.op <= block.n /\ (dec.iend = block.size => dec.op = block.n)
  BY <1>1 DEF DecoderTells, IsDecoder
<1>4. call.cut = 0 => dec.op = block.n
  <2>1. call.cut = 0 => dec.iend = block.size
    BY <1>1, <1>2 DEF Asked
  <2> QED BY <1>3, <2>1
<1>5. \A p \in 0 .. dec.op - 1 : dec.mem[p] = block.data[p + 1]
  BY <1>1 DEF DecoderTells, Correct, Finished, Failed
<1> DEFINE op == dec.op
           data == block.data
           mem == dec.mem
<1>6. op \in Nat /\ op <= Len(data) /\ data \in Seq(Int) /\ \A p \in 0 .. op - 1 : mem[p] = data[p + 1]
  BY <1>2, <1>3, <1>5
<1>7. Result = [i \in 1 .. op |-> mem[i - 1]]
  BY DEF Result
<1> HIDE DEF op, data, mem
<1>8. \A i \in 1 .. op : i - 1 \in 0 .. op - 1 /\ (i - 1) + 1 = i /\ i \in 1 .. Len(data)
  BY <1>6, SMT
<1>9. \A i \in 1 .. op : mem[i - 1] = data[i]
  BY <1>6, <1>8
<1>10. SubSeq(data, 1, op) = [i \in 1 .. op |-> data[i]]
  BY <1>6, SMT
<1>11. Result = SubSeq(data, 1, op)
  BY <1>7, <1>9, <1>10
<1> QED BY <1>2, <1>3, <1>4, <1>11 DEF op, data

\* A whole block comes back as it was compressed, whatever its data, dictionary
\* and matches are, and whatever room there is beyond it: all the ways of copying
\* of both loops of LZ4_decompress_generic (lz4.c:1937-2339) give what the
\* compressors meant, and no block of theirs is refused.
THEOREM RoundTripAlways == Spec => []RoundTrip
<1>1. BlockIInv /\ BlockCInv => RoundTrip
  <2> SUFFICES ASSUME BlockIInv, BlockCInv, phase = "returned", call.cut = 0, call.room >= block.n
               PROVE  Returned /\ Result = block.data
    BY DEF RoundTrip
  <2>1. Returned
    BY DEF BlockCInv
  <2>2. block.data \in Seq(Int) /\ Result = SubSeq(block.data, 1, Len(block.data))
    BY <2>1, ResultTrue
  <2> DEFINE data == block.data
  <2> HIDE DEF data
  <2>3. data \in Seq(Int) => SubSeq(data, 1, Len(data)) = data
    OBVIOUS
  <2> QED BY <2>1, <2>2, <2>3 DEF data
<1> QED
  BY <1>1, BlockInductive, PTL

\* What decompress returns without raising is never anything but the data or, of
\* a block that was cut and is not stored with its size, its beginning: neither
\* too little room nor a cut goes by where it can be noticed (_block.c:332, 365-380,
\* and the end-of-block rules of LZ4_decompress_generic, lz4.c:2174-2225).
THEOREM ReturnedAlwaysTrue == Spec => []ReturnedIsTrue
<1>1. BlockIInv /\ BlockCInv => ReturnedIsTrue
  <2> SUFFICES ASSUME BlockIInv, BlockCInv, Returned
               PROVE  /\ Result = SubSeq(block.data, 1, dec.op)
                      /\ dec.op < block.n => call.cut > 0 /\ ~ call.stored
    BY DEF ReturnedIsTrue
  <2>1. /\ dec.op \in Nat /\ block.n \in Nat /\ Result = SubSeq(block.data, 1, dec.op)
        /\ call.cut = 0 => dec.op = block.n
    BY ResultTrue
  <2>2. /\ call.cut \in Nat /\ (call.stored => dec.op = block.n)
    BY DEF BlockCInv, IsCall, Asked
  <2>3. dec.op < block.n => call.cut > 0 /\ ~ call.stored
    BY <2>1, <2>2
  <2> QED BY <2>1, <2>3
<1> QED
  BY <1>1, BlockInductive, PTL
=============================================================================
