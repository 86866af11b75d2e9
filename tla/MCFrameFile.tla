---------------------------- MODULE MCFrameFile ----------------------------
(* FrameFile with files of a few bytes: blocks of one and two bytes, frames  *)
(* of at most three, and a source_size that is met, missed and exceeded.     *)
EXTENDS FrameFile

MCBlockSizes   == {1, 2}
MCContentSizes == {0, 2}
MCReadSizes    == {1, 3}
MCRawReads     == {1, 3}
MCOffsets      == {0, 2}

MCChoice(block, linked, autoFlush, size) ==
  [block |-> block, linked |-> linked, autoFlush |-> autoFlush,
   blockCrc |-> linked, contentCrc |-> linked, size |-> size]

MCChoices == {MCChoice(2, TRUE, FALSE, 0), MCChoice(2, FALSE, FALSE, 2)}
=============================================================================
