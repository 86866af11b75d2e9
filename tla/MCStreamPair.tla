---------------------------- MODULE MCStreamPair ----------------------------
(* StreamPair over short pages.                                              *)
EXTENDS StreamPair

\* Chunks that never fill a page, and chunks that all do.
MCSafe == {{0, PageSize - 2, PageSize - 1}, {PageSize}}

MCModes == {"fast", "hc"}

\* Pages of one size on both sides, results of the decompressor lost or not;
\* pages of no byte, or one byte shorter or longer, at the reader, with chunks of
\* any fill but empty; blocks lost and dictionaries freed.
MCStreams ==
  [mode : MCModes, sizes : MCSafe, dict : {0, 2, 4}, decPage : {PageSize}, loses : {{"chunk"}}, freed : {FALSE}]
    \cup [mode : MCModes, sizes : {{1, PageSize - 1, PageSize}}, dict : {0, 4},
          decPage : {0, PageSize - 1, PageSize + 1}, loses : {{}}, freed : {FALSE}]
    \cup [mode : MCModes, sizes : {{0, PageSize - 1}, {PageSize}}, dict : {0, 4}, decPage : {PageSize},
          loses : {{"block", "chunk"}}, freed : {TRUE}]

ASSUME MCAssumption == \A s \in MCStreams : s.freed \/ Regular(s)

MCOne(mode, sizes) ==
  [mode |-> mode, sizes |-> sizes, dict |-> 0, decPage |-> PageSize, loses |-> {}, freed |-> FALSE]

\* Full pages, with empty chunks among them.
MCEmpty == {MCOne("fast", {0, PageSize})}

\* Full pages and a shorter chunk, as when a stream is cut into pages.
MCPartial == {MCOne("fast", {PageSize - 1, PageSize}), MCOne("hc", {PageSize - 1, PageSize})}
=============================================================================
