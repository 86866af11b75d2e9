------------------------ MODULE MCFrameDecompressor ------------------------
(* FrameDecompressor over pairs of frames laid end to end.                   *)
EXTENDS FrameDecompressor

Raw(n)           == [raw |-> TRUE, wire |-> n, size |-> n]
Packed(n, size)  == [raw |-> FALSE, wire |-> n, size |-> size]
Frame(sized, crc, blocks) ==
  [sized |-> sized, blockCrc |-> crc, contentCrc |-> crc, blocks |-> blocks]

\* One frame of each kind: announced and not, checksummed and not, with blocks
\* that are stored raw, grow in the output past twice the input, or neither.
MCMixed == << Frame(TRUE, FALSE, << Packed(2, 5), Raw(2) >>), Frame(FALSE, TRUE, << Raw(2) >>) >>

\* Frames that both announce their size, and frames that both do not.
MCSized   == << Frame(TRUE, TRUE, << Raw(2), Packed(1, 3) >>), Frame(TRUE, FALSE, << Raw(1) >>) >>
MCUnsized == << Frame(FALSE, FALSE, << Packed(2, 4) >>), Frame(FALSE, FALSE, << Raw(1) >>) >>

MCLengths == {-1, 0, 1, 3}

MCScenario(frames, lengths, habits, memoryFails) ==
  [frames |-> frames, lengths |-> lengths, habits |-> habits, memoryFails |-> memoryFails]

\* One frame finished after another; frames abandoned half way and allocations
\* failing, where all frames announce their size; and the object used again
\* without reset, by callers that set no max_length.
MCSound ==
  << MCScenario(MCMixed, MCLengths, {"reset"}, FALSE),
    MCScenario(MCSized, MCLengths, {"reset", "abandon"}, TRUE),
    MCScenario(MCSized, {-1}, {"reset", "reuse"}, FALSE) >>

ASSUME SoundAssumption == \A k \in DOMAIN MCSound : Careful(MCSound[k])

MCReuse   == << MCScenario(MCUnsized, MCLengths, {"reuse"}, FALSE) >>
MCAbandon == << MCScenario(MCMixed, MCLengths, {"abandon"}, FALSE) >>
MCReset   == << MCScenario(MCUnsized, MCLengths, {"reset"}, FALSE) >>
=============================================================================
