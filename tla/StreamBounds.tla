---------------------------- MODULE StreamBounds ----------------------------
(***************************************************************************)
(* The size arithmetic of lz4.stream: how large a block may get, how much  *)
(* may come out of one, and what length fits its prefix.                   *)
(***************************************************************************)
EXTENDS Integers

LZ4_MAX_INPUT_SIZE == 2113929216

\* LZ4_compressBound, 0 for an input beyond the limit.
get_compress_bound(n) ==
  IF n > LZ4_MAX_INPUT_SIZE THEN 0 ELSE n + n \div 255 + 16

\* Mutant: small lengths are not raised to 17 first.
Xget_input_bound(c) ==
  LET d == c - 16
      isize == d - (d + 255) \div 256
  IN  IF c > get_compress_bound(LZ4_MAX_INPUT_SIZE) THEN 0 ELSE isize

\* ((c << 8) - c - 4080) >> 8 is (c - 16) * 255 / 256, rounded down; written
\* without the product, which TLC's integers have no room for.
get_input_bound(c) ==
  LET d == (IF c < 16 THEN 17 ELSE c) - 16
      isize == d - (d + 255) \div 256
  IN  IF c > get_compress_bound(LZ4_MAX_INPUT_SIZE) \/ isize > LZ4_MAX_INPUT_SIZE
      THEN 0
      ELSE isize + 1

\* The largest block the encoders make of n bytes: no match, so one token, the
\* bytes that extend its literal length, and the literals.
largest_block(n) == 1 + n + (IF n < 15 THEN 0 ELSE (n - 15) \div 255 + 1)

\* _GET_MAX_UINT32: what a length prefix of that many bytes can hold; with no
\* prefix as much as with four.  The four-byte limit is beyond TLC's integers
\* and stands at the largest of them, above every size the code accepts.
MaxUint(store_comp_size) ==
  CASE store_comp_size = 1 -> 255
    [] store_comp_size = 2 -> 65535
    [] OTHER -> 2147483647

\* What _create_context accepts for a compressor.
Accepted(buffer_size, store_comp_size) ==
  /\ get_compress_bound(buffer_size) # 0
  /\ get_compress_bound(buffer_size) =< MaxUint(store_comp_size)
-----------------------------------------------------------------------------
\* A page of n bytes takes back every block that was made from at most n.
FitsItsPage(n) ==
  get_input_bound(largest_block(n)) \in 1 .. (IF n = 0 THEN 1 ELSE n)

\* The output buffer, sized by the bound, takes every block.
FitsItsBound(n) == largest_block(n) =< get_compress_bound(n)
=============================================================================
