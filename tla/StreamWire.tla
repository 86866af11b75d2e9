----------------------------- MODULE StreamWire -----------------------------
(***************************************************************************)
(* What a compressor of StreamContext is then used for: blocks laid end to *)
(* end, each behind its length, and the loop that takes them apart with    *)
(* get_block and decompress, on a stream that may have been cut short.     *)
(* The reader's context has the same sizes.                                *)
(***************************************************************************)
EXTENDS StreamContext, Sums, Sequences

CONSTANTS
  MaxBlocks,   \* bound on the length of the stream, in blocks
  MaxBlock,    \* and on the length of a block in it
  Cuts         \* bytes that may be missing at its end

ASSUME WireAssumption == {MaxBlocks, MaxBlock} \subseteq Nat /\ Cuts \subseteq Nat

VARIABLES
  blocks,    \* the blocks' lengths, in order
  fields,    \* the length fields before them
  have,      \* bytes of the stream the reader has, -1 while it is written
  offset,    \* where the reader stands
  read,      \* lengths of the blocks it has got
  outcome    \* "going", "complete" or "raised"

wireVars == <<blocks, fields, have, offset, read, outcome>>

Width == args.store_comp_size

\* Bytes of the first n blocks with their prefixes.
Laid(n) == Sum([k \in DOMAIN blocks |-> Width + blocks[k]], n)

WireInit ==
  /\ Init
  /\ blocks = << >> /\ fields = << >> /\ read = << >>
  /\ have = -1 /\ offset = 0 /\ outcome = "going"

\* With no prefix blocks travel on their own, and get_block only raises.
Streaming == stage = "created" /\ args.direction = "compress" /\ Width # 0

\* store_le8, store_le16 and store_le32 keep as many bytes as they name; no
\* length comes near the limit of four.
Field(n, w) == CASE w = 1 -> n % 256 [] w = 2 -> n % 65536 [] w = 4 -> n

\* _compress, for a chunk of n bytes: any length up to the bound.  One that
\* does not fit its field is an error, and nothing comes out.
AppendBlock(n, csize) ==
  /\ Streaming /\ have = -1 /\ Len(blocks) < MaxBlocks /\ csize =< MaxBlock
  /\ csize =< MaxUint(Width)
  /\ blocks' = Append(blocks, csize)
  /\ fields' = Append(fields, Field(csize, Width))
  /\ UNCHANGED <<vars, have, offset, read, outcome>>

\* The stream arrives, whole or without its end.
Deliver(cut) ==
  /\ Streaming /\ have = -1 /\ Laid(Len(blocks)) >= cut
  /\ have' = Laid(Len(blocks)) - cut
  /\ UNCHANGED <<vars, blocks, fields, offset, read, outcome>>

-----------------------------------------------------------------------------
Available == have - offset

\* The length field at the reader's place; it stands before block Len(read) + 1.
load_block_length == fields[Len(read) + 1]

\* Mutant: only the length field has to be there.
XWhole == Available >= Width

\* _get_block: the source holds a length field, and the block it announces.
Whole == Available >= Width /\ Available - Width >= load_block_length

\* _decompress: refused for its length, or too large for the page.
Taken(csize) ==
  /\ csize =< MaxUint(Width)
  /\ get_input_bound(csize) \in 1 .. args.buffer_size

\* while offset < len(stream): block = get_block(stream[offset:]); ...
Read ==
  /\ have >= 0 /\ outcome = "going" /\ Available > 0
  /\ IF Whole /\ Taken(load_block_length)
     THEN /\ read' = Append(read, load_block_length)
          /\ offset' = offset + Width + load_block_length
          /\ UNCHANGED outcome
     ELSE outcome' = "raised" /\ UNCHANGED <<read, offset>>
  /\ UNCHANGED <<vars, blocks, fields, have>>

Finish ==
  /\ have >= 0 /\ outcome = "going" /\ Available =< 0
  /\ outcome' = "complete"
  /\ UNCHANGED <<vars, blocks, fields, have, offset, read>>

ReadStep == stage = "created" /\ (Read \/ Finish)

WireNext ==
  \/ Next /\ UNCHANGED wireVars
  \/ \E n \in {0, args.buffer_size} : \E csize \in {1, largest_block(n)} : AppendBlock(n, csize)
  \/ \E cut \in Cuts : Deliver(cut)
  \/ ReadStep

WireSpec == WireInit /\ [][WireNext]_<<vars, wireVars>>

-----------------------------------------------------------------------------
\* A stream is read to its end only when it was cut between two blocks, and then
\* the reader has got the blocks before the cut as they were written, in order
\* and none twice: what is missing from a block is an error, never a shorter one.
CutIsNoticed ==
  outcome = "complete" => \E n \in 0 .. Len(blocks) : have = Laid(n) /\ read = SubSeq(blocks, 1, n)

\* A whole stream is never an error.  (A page of no bytes, which is accepted,
\* takes no block, not even that of an empty chunk.)
WholeIsRead ==
  (outcome = "raised" /\ args.buffer_size > 0) => have < Laid(Len(blocks))
=============================================================================
