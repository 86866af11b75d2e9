--------------------------- MODULE MCFrameContext ---------------------------
(* FrameContext with a window of two bytes and blocks of two and four, the   *)
(* smallest in which a block is as long as the window and longer than it.    *)
EXTENDS FrameContext

MCBlockSizes   == {2, 4}
MCContentSizes == {0, 5}
MCChoices      == {p \in Preferences(MCContentSizes) :
                     p.blockCrc = (p.block = 4) /\ p.contentCrc = p.blockCrc}
=============================================================================
