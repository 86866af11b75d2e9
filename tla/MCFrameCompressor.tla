-------------------------- MODULE MCFrameCompressor --------------------------
(* FrameCompressor with a window of two bytes and blocks of two and four.    *)
EXTENDS FrameCompressor

MCBlockSizes   == {2, 4}
MCContentSizes == {0, 5}
MCChoices      == {p \in Preferences(MCContentSizes) :
                     p.blockCrc = (p.block = 4) /\ p.contentCrc = p.blockCrc}
=============================================================================
