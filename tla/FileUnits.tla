------------------------------ MODULE FileUnits ------------------------------
(***************************************************************************)
(* What a file of LZ4 frames is made of, and what a decompressor makes of  *)
(* it.  A unit is a frame's header, a block, the mark and checksum that    *)
(* end a frame, a skippable frame, or the torn front of any of them.       *)
(* LZ4FrameDecompressor takes its input apart at any byte (see             *)
(* FrameDecompressor); here it takes whole units, and what remains of its  *)
(* calls is what they return and what they leave for later.                *)
(***************************************************************************)
EXTENDS Integers, Sequences

HeaderUnit(size) == [kind |-> "header", size |-> size, data |-> << >>]
BlockUnit(data)  == [kind |-> "block", size |-> 0, data |-> data]
EndUnit          == [kind |-> "end", size |-> 0, data |-> << >>]
SkippableUnit    == [kind |-> "skippable", size |-> 0, data |-> << >>]
TornUnit         == [kind |-> "torn", size |-> 0, data |-> << >>]

Least(a, b) == IF a < b THEN a ELSE b
Without(s, n) == SubSeq(s, n + 1, Len(s))
-----------------------------------------------------------------------------
(* A decompressor in a call: is it inside a frame, the size its header     *)
(* announced, the content decoded of it, what of that found no room yet;   *)
(* then the room left (-1 for no limit), the output, and how it stands.    *)

Fresh == [open |-> FALSE, announced |-> 0, count |-> 0, pending |-> << >>,
          room |-> 0, out |-> << >>, result |-> "more"]

\* dstage_flushOut, or a block decoded where the caller wants it.
Drained(d) ==
  LET n == IF d.room < 0 THEN Len(d.pending) ELSE Least(d.room, Len(d.pending))
  IN  [d EXCEPT !.out = @ \o SubSeq(d.pending, 1, n), !.pending = Without(@, n),
                !.room = IF @ < 0 THEN @ ELSE @ - n]

\* dstage_getSuffix
EndOfFrame(d) ==
  [d EXCEPT !.open = FALSE,
            !.result = IF d.announced > 0 /\ d.announced # d.count THEN "error" ELSE "end"]

\* LZ4F_decodeHeader
BeginFrameOf(d, u) == [d EXCEPT !.open = TRUE, !.announced = u.size, !.count = 0]

\* The stages of a block, raw or compressed.
DecodeBlockOf(d, u) == Drained([d EXCEPT !.pending = u.data, !.count = @ + Len(u.data)])

\* dstage_getSFrameSize and dstage_skipSkippable, which resets the context.
SkipFrame(d) == [d EXCEPT !.result = "end"]

\* LZ4F_decompress over one unit.  A header where a block is due is a block too
\* large for any frame; a block or an end mark where a header is due has not the
\* magic number; of a torn unit more is due.
Take(d, u) ==
  CASE u.kind = "torn" -> d
    [] u.kind = "header" /\ ~ d.open -> BeginFrameOf(d, u)
    [] u.kind = "skippable" /\ ~ d.open -> SkipFrame(d)
    [] u.kind = "block" /\ d.open -> DecodeBlockOf(d, u)
    [] u.kind = "end" /\ d.open -> EndOfFrame(d)
    [] OTHER -> [d EXCEPT !.result = "error"]

\* A call with so much room, which first returns what waits.
Called(d, room) == Drained([d EXCEPT !.room = room, !.out = << >>, !.result = "more"])

\* It goes on until the frame or the input ends, or there is no room.
Stopped(d) == d.result # "more" \/ d.pending # << >>

\* The loop over a row of units, and how it stands after k of them.
Going(d, units, k) ==
  LET after[j \in 0 .. k] ==
        IF j = 0 THEN d
        ELSE IF Stopped(after[j - 1]) THEN after[j - 1] ELSE Take(after[j - 1], units[j])
  IN  after[k]

Run(d, units) == Going(d, units, Len(units))

\* A file read frame by frame, with all the room there is: what the next unit
\* makes of it, how it stands after k units, and after all of them.
Onward(t, u) ==
  IF t.result = "error" THEN t
  ELSE Take(IF t.result = "end" THEN [Fresh EXCEPT !.room = -1, !.out = t.out] ELSE t, u)

WholeTo(units, k) ==
  LET after[j \in 0 .. k] ==
        IF j = 0 THEN [Fresh EXCEPT !.room = -1, !.result = "end"]
        ELSE Onward(after[j - 1], units[j])
  IN  after[k]

Whole(units) == WholeTo(units, Len(units))
=============================================================================
