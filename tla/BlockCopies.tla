----------------------------- MODULE BlockCopies -----------------------------
(***************************************************************************)
(* How LZ4_decompress_generic copies: in words of 4, 8, 16 and 32 bytes,   *)
(* past the end of what it wants and, for a match, from what the same copy *)
(* has just written.  Memory is the destination buffer, from 0 on; what is *)
(* below it, or was never written, is Junk.                                *)
(***************************************************************************)
EXTENDS Integers

Junk == -1000000

At(mem, p) == IF p \in DOMAIN mem THEN mem[p] ELSE Junk

\* memcpy of so many bytes, which are read before they are written.
Word(mem, to, from, n) ==
  [p \in DOMAIN mem |-> IF p >= to /\ p < to + n THEN At(mem, from + (p - to)) ELSE mem[p]]

\* Byte by byte, where it reads what it wrote.
Bytewise(mem, to, from, n) ==
  [p \in DOMAIN mem |-> IF p >= to /\ p < to + n THEN At(mem, from + ((p - to) % (to - from))) ELSE mem[p]]

\* The words of a copy up to end, at least one.
Words(to, end, size) == IF end <= to THEN 1 ELSE (end - to + size - 1) \div size
Reached(to, end, size) == to + size * Words(to, end, size)

Wild(mem, to, from, end, size) ==
  LET copied[k \in 0 .. Words(to, end, size)] ==
        IF k = 0 THEN mem ELSE Word(copied[k - 1], to + size * (k - 1), from + size * (k - 1), size)
  IN  copied[Words(to, end, size)]

LZ4_wildCopy8(mem, to, from, end) == Wild(mem, to, from, end, 8)

\* Two words of 16 at a time.
LZ4_wildCopy32(mem, to, from, end) == Wild(mem, to, from, Reached(to, end, 32), 16)

inc32table == << 0, 1, 2, 1, 0, 4, 4, 4 >>
dec64table == << 0, 0, 0, -1, -4, 1, 2, 3 >>

\* Mutant: the second word of a short offset is read where the first ended.
XShortWord(mem, to, offset) ==
  Word(Bytewise(mem, to, to - offset, 4), to + 4, to - offset + 4, 4)

\* The first eight bytes of a match closer than that: four bytes, then a word
\* from where the pattern starts over.
ShortWord(mem, to, offset) ==
  Word(Bytewise(mem, to, to - offset, 4), to + 4, to - offset + inc32table[offset + 1], 4)

\* Where a copy that began with ShortWord goes on reading.
AfterShortWord(to, offset) ==
  to - offset + inc32table[offset + 1] - dec64table[offset + 1]

LZ4_memcpy_using_offset_base(mem, to, end, offset) ==
  IF offset < 8
  THEN LZ4_wildCopy8(ShortWord(mem, to, offset), to + 8, AfterShortWord(to, offset), end)
  ELSE LZ4_wildCopy8(Word(mem, to, to - offset, 8), to + 8, to + 8 - offset, end)

\* A pattern of 1, 2 or 4 bytes is spread over eight, which are stored again
\* and again.
Stored8(mem, to, end, offset) ==
  [p \in DOMAIN mem |-> IF p >= to /\ p < Reached(to, end, 8)
                        THEN At(mem, to - offset + ((p - to) % offset)) ELSE mem[p]]

UsingOffsetReaches(to, end, offset) ==
  IF offset \in {1, 2, 4} THEN Reached(to, end, 8) ELSE Reached(to + 8, end, 8)

LZ4_memcpy_using_offset(mem, to, end, offset) ==
  IF offset \in {1, 2, 4} THEN Stored8(mem, to, end, offset)
  ELSE LZ4_memcpy_using_offset_base(mem, to, end, offset)
=============================================================================
