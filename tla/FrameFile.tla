----------------------------- MODULE FrameFile -----------------------------
(***************************************************************************)
(* LZ4FrameFile and open of lz4/frame/__init__.py, and the files they      *)
(* leave behind: opened for writing, again for appending, closed, cut      *)
(* short, and read back through the DecompressReader of the standard       *)
(* library.  The compressor is FrameCompressor, its calls and its failures *)
(* included; lz4.frame.compress may add whole frames, and other programs   *)
(* skippable ones; lz4.frame.decompress reads the first of them.           *)
(*                                                                         *)
(* A byte of content is its position in everything that was ever given for *)
(* the file.  Appending reopens the file; a failed open leaves an object   *)
(* behind that its finalizer closes.                                       *)
(***************************************************************************)
EXTENDS FrameCompressor, OneShotFrame, FileUnits

CONSTANTS
  MaxOpens,       \* bound: the file is opened for writing that often
  MaxUnits,       \* bound: write is not called once the file is as long as that
  RawReads,       \* how many units a read of the file below asks for
  ReadSizes,      \* the lengths read is called with
  Offsets         \* the offsets seek is called with

ASSUME FileAssumption ==
  /\ {MaxOpens, MaxUnits} \subseteq Nat /\ Offsets \subseteq Nat
  /\ RawReads \cup ReadSizes \subseteq Nat \ {0}

VARIABLES
  mode,     \* _mode: "closed", "read" or "write"
  step,     \* where the call in progress is, or "orphan" after a failed open
  prefs,    \* what the file was opened with
  todo,     \* the bytes a write has been called with
  disk,     \* the file, in units
  total,    \* bytes of content given for it
  base,     \* those given before the frame being written
  opens,    \* times it has been opened for writing
  failed,   \* a call has raised
  lost,     \* something a call was to write is not in the file
  cut,      \* the file has been cut short
  rd,       \* the reader
  shot      \* what the last one-shot call came to

writerVars == <<mode, step, prefs, todo, disk, total, base, opens, failed, lost, cut>>
fileVars == <<vars, writerVars, rd, shot>>

\* The attributes of DecompressReader and of the decompressor it holds.  want
\* is the size of the read in progress, skip the offset a seek is on its way to;
\* raw stands for BUFFER_SIZE, input is what the call in progress has been given.
NewReader(raw) ==
  [raw |-> raw, input |-> << >>, busy |-> FALSE, dec |-> Fresh, unconsumed |-> << >>, unused |-> << >>, eof |-> FALSE, needs_input |-> TRUE,
   at |-> 0, pos |-> 0, end |-> FALSE, want |-> 0, skip |-> 0, data |-> << >>, raised |-> FALSE]

NoShot == [status |-> "none", data |-> << >>, ret |-> Raised("ok"), cctx |-> NewContext]

FileInit ==
  /\ Init
  /\ mode = "closed" /\ step = "idle"
  /\ prefs = NewContext.prefs
  /\ disk = << >>
  /\ todo = 0 /\ total = 0 /\ base = 0 /\ opens = 0
  /\ failed = FALSE /\ lost = FALSE /\ cut = FALSE
  /\ rd = NewReader(1)
  /\ shot = NoShot
-----------------------------------------------------------------------------
(* Writing.                                                                *)

Placed(blocks, from) ==
  [k \in DOMAIN blocks |->
    BlockUnit([i \in DOMAIN blocks[k].data |-> blocks[k].data[i] + from])]

\* What a call returned, its content being that from position from on.
UnitsOf(r, size, from) ==
  (IF "header" \in r.parts THEN << HeaderUnit(size) >> ELSE << >>)
    \o Placed(r.blocks, from)
    \o (IF "footer" \in r.parts THEN << EndUnit >> ELSE << >>)

\* Bound: memory runs out, or the file below refuses a write, once in a file.
Outages == IF failed THEN {TRUE} ELSE BOOLEAN
Bounded == ret'.status \in {"MemoryError", "allocation"} => ~ failed

\* self._fp.write of what the compressor returned: all of it, or it raises.
FpWrite(kept, from) ==
  /\ disk' = IF kept THEN disk \o UnitsOf(ret', prefs.size, from) ELSE disk
  /\ failed' = (failed \/ ~ kept)
  /\ lost' = (lost \/ ~ kept)

\* The compressor raised: nothing is written, and what it had moved past is lost.
NotWritten ==
  /\ Bounded
  /\ failed' = TRUE
  /\ lost' = (lost \/ (ret'.status = "MemoryError" /\ cctx' # cctx))
  /\ UNCHANGED disk

\* A new LZ4FrameFile for writing, with a compressor of its own, at the end of
\* the file ("a"); "w" and "x" start from an empty one, as a behavior does.
open(p) ==
  /\ mode = "closed" /\ ~ cut /\ opens < MaxOpens
  /\ mode' = "write" /\ step' = "begin" /\ prefs' = p /\ todo' = -1
  /\ opens' = opens + 1
  /\ rd' = NewReader(1) /\ shot' = NoShot
  /\ UNCHANGED <<vars, disk, total, base, failed, lost, cut>>

\* begin, and its header written, from __init__ (todo = -1) or from write.
BeginFrame ==
  /\ step = "begin"
  /\ begin(prefs)
  /\ IF ret'.status = "ok"
     THEN /\ base' = total
          /\ \E kept \in Outages :
               /\ FpWrite(kept, total)
               /\ step' = IF todo = -1 THEN (IF kept THEN "idle" ELSE "orphan")
                                       ELSE (IF kept THEN "compress" ELSE "idle")
     ELSE NotWritten /\ step' = (IF todo = -1 THEN "orphan" ELSE "idle") /\ UNCHANGED base
  /\ UNCHANGED <<mode, prefs, todo, total, opens, cut, rd, shot>>

\* Mutant: a frame is begun only once, by __init__.
XNextStep == "compress"

\* write: a frame is begun when the last was ended by flush.
NextStep == IF started THEN "compress" ELSE "begin"

write(n) ==
  /\ mode = "write" /\ step = "idle"
  /\ accepted + n <= MaxContent /\ Len(disk) < MaxUnits
  /\ step' = NextStep /\ todo' = n
  /\ UNCHANGED <<vars, mode, prefs, disk, total, base, opens, failed, lost, cut, rd, shot>>

CompressData ==
  /\ step = "compress" /\ step' = "idle"
  /\ compress(todo)
  /\ UNCHANGED base
  /\ IF ret'.status = "ok" THEN \E kept \in Outages : FpWrite(kept, base) ELSE NotWritten
  /\ total' = base + accepted'
  /\ todo' = 0
  /\ UNCHANGED <<mode, prefs, opens, cut, rd, shot>>

\* flush: ends the frame, if there is one.
FlushFrame ==
  /\ \/ /\ has
        /\ flush
        /\ IF ret'.status = "ok" THEN \E kept \in Outages : FpWrite(kept, base) ELSE NotWritten
     \/ ~ has /\ UNCHANGED <<vars, disk, failed, lost>>
  /\ UNCHANGED <<prefs, todo, total, base, opens, cut, rd, shot>>

flushFile == mode = "write" /\ step = "idle" /\ FlushFrame /\ UNCHANGED <<mode, step>>

\* Mutant: closing does not end the frame.
XFinalFlush ==
  UNCHANGED <<vars, prefs, todo, disk, total, base, opens, failed, lost, cut, rd, shot>>

FinalFlush == FlushFrame

\* close, by the caller or by the finalizer of an object that was never his.
close ==
  /\ mode = "write" /\ step \in {"idle", "orphan"} /\ step' = "closing"
  /\ FinalFlush
  /\ UNCHANGED mode

\* Its finally clause, which runs even if the flush raised.  The compressor goes.
Closed ==
  /\ step = "closing" /\ step' = "idle" /\ mode' = "closed"
  /\ has' = FALSE /\ cctx' = NewContext /\ started' = FALSE
  /\ accepted' = 0 /\ sent' = 0 /\ clean' = TRUE /\ ret' = Raised("ok")
  /\ prefs' = NewContext.prefs /\ todo' = 0 /\ base' = 0
  /\ UNCHANGED <<disk, total, opens, failed, lost, cut, rd, shot>>
-----------------------------------------------------------------------------
(* What others do to the file between two uses of it.                      *)

\* lz4.frame.compress of n bytes, appended to the file.
CompressOneShot(n, p) ==
  LET r == OneShotReturned(n, p)
  IN  /\ mode = "closed" /\ ~ cut /\ opens < MaxOpens
      /\ opens' = opens + 1
      /\ shot' = [status |-> "compressed", data |-> << >>, ret |-> r, cctx |-> OneShotUpdated(n, p)]
      /\ disk' = disk \o UnitsOf(r, OneShotPrefs(n, p).size, total)
      /\ total' = total + n
      /\ rd' = NewReader(1)
      /\ UNCHANGED <<vars, mode, step, prefs, todo, base, failed, lost, cut>>

AppendSkippable ==
  /\ mode = "closed" /\ ~ cut /\ opens < MaxOpens
  /\ opens' = opens + 1
  /\ disk' = Append(disk, SkippableUnit)
  /\ rd' = NewReader(1) /\ shot' = NoShot
  /\ UNCHANGED <<vars, mode, step, prefs, todo, total, base, failed, lost, cut>>

\* The file is cut between two units, or inside one.
CutShort(k, torn) ==
  /\ mode = "closed" /\ ~ cut /\ k < Len(disk)
  /\ disk' = SubSeq(disk, 1, k) \o (IF torn THEN << TornUnit >> ELSE << >>)
  /\ cut' = TRUE
  /\ rd' = NewReader(1) /\ shot' = NoShot
  /\ UNCHANGED <<vars, mode, step, prefs, todo, total, base, opens, failed, lost>>
-----------------------------------------------------------------------------
(* Reading.                                                                *)

Reads == UNCHANGED <<vars, writerVars, shot>>

OpenForReading(raw) ==
  /\ mode = "closed" /\ mode' = "read"
  /\ rd' = NewReader(raw) /\ shot' = NoShot
  /\ UNCHANGED <<vars, step, prefs, todo, disk, total, base, opens, failed, lost, cut>>

CloseReader ==
  /\ mode = "read" /\ rd.want = 0 /\ mode' = "closed"
  /\ rd' = NewReader(1)
  /\ UNCHANGED <<vars, step, prefs, todo, disk, total, base, opens, failed, lost, cut, shot>>

Idle == mode = "read" /\ rd.want = 0 /\ ~ rd.raised

read(size) ==
  /\ Idle /\ ~ rd.end /\ rd.pos >= rd.skip
  /\ rd' = [rd EXCEPT !.want = size, !.data = << >>]
  /\ Reads

\* Mutant: a rewound reader goes on with its decompressor.
XRewound(r) == [r EXCEPT !.at = 0, !.pos = 0, !.end = FALSE]

Rewound(r) == NewReader(r.raw)

\* seek: from the start again if need be, then by reading what is skipped.
seek(offset) ==
  /\ Idle /\ rd.pos >= rd.skip
  /\ rd' = [(IF offset < rd.pos THEN Rewound(rd) ELSE rd) EXCEPT !.skip = offset, !.data = << >>]
  /\ Reads

SkipData ==
  /\ Idle /\ ~ rd.end /\ rd.pos < rd.skip
  /\ rd' = [rd EXCEPT !.want = rd.skip - rd.pos, !.data = << >>]
  /\ Reads

\* The loop of DecompressReader.read.  A new decompressor for the next frame
\* starts with what the last left unused.
Looping == rd.want > 0 /\ ~ rd.busy
UsesFile == IF rd.eof THEN rd.unused = << >> ELSE rd.needs_input
Unread == Without(disk, rd.at)
Raw == IF UsesFile THEN SubSeq(Unread, 1, Least(rd.raw, Len(Unread)))
       ELSE IF rd.eof THEN rd.unused ELSE << >>

Advance == IF UsesFile THEN Len(Raw) ELSE 0

\* LZ4FrameDecompressor.decompress is called.
Decompress ==
  /\ Looping /\ (UsesFile => Unread # << >>)
  /\ rd' = [rd EXCEPT !.busy = TRUE,
                      !.input = (IF rd.eof THEN << >> ELSE rd.unconsumed) \o Raw,
                      !.dec = Called(IF rd.eof THEN Fresh ELSE @, rd.want),
                      !.at = @ + Advance]
  /\ Reads

\* __decompress goes on by a unit.
TakeUnit ==
  /\ rd.busy /\ ~ Stopped(rd.dec) /\ rd.input # << >>
  /\ rd' = [rd EXCEPT !.dec = Take(@, Head(rd.input)), !.input = Tail(@)]
  /\ Reads

\* Mutants of the attributes decompress sets.
XNeedsInput(rest, ended) == FALSE
XKept(rest, ended) == << >>

\* What it sets needs_input to, and keeps of its input.
NeedsInput(rest, ended) == IF rest = << >> THEN TRUE ELSE IF ended THEN rd.needs_input ELSE FALSE
Kept(rest, ended) == IF rest = << >> \/ ended THEN << >> ELSE rest

\* It returns, or raises; the read returns once there is data.
DecompressReturns ==
  LET d     == rd.dec
      ended == d.result = "end"
  IN  /\ rd.busy /\ (Stopped(d) \/ rd.input = << >>)
      /\ rd' = IF d.result = "error"
               THEN [rd EXCEPT !.busy = FALSE, !.raised = TRUE, !.want = 0]
               ELSE [rd EXCEPT !.busy = FALSE, !.input = << >>,
                               !.unconsumed = Kept(rd.input, ended),
                               !.unused = IF ended THEN rd.input ELSE << >>,
                               !.eof = ended, !.needs_input = NeedsInput(rd.input, ended),
                               !.pos = @ + Len(d.out), !.data = d.out,
                               !.want = IF d.out = << >> THEN @ ELSE 0]
      /\ Reads

\* Mutant: the end of the file is the end of the content.
XReadEnd ==
  /\ Looping /\ UsesFile /\ Unread = << >>
  /\ rd' = [rd EXCEPT !.want = 0, !.end = TRUE]
  /\ Reads

\* EOFError inside a frame.
ReadEnd ==
  /\ Looping /\ UsesFile /\ Unread = << >>
  /\ rd' = [rd EXCEPT !.want = 0, !.end = rd.eof, !.raised = ~ rd.eof]
  /\ Reads

\* Mutant: what came before the input ended is returned.
XFrameDecoded(d) == d.result # "error"

\* "Frame incomplete"
FrameDecoded(d) == d.result = "end"

\* lz4.frame.decompress of the whole file, which is its first frame.
DecompressOneShot ==
  LET d == Run(Called(Fresh, -1), disk)
  IN  /\ mode = "closed" /\ shot = NoShot
      /\ shot' = [NoShot EXCEPT !.status = IF FrameDecoded(d) THEN "decompressed" ELSE "raised",
                                !.data = IF FrameDecoded(d) THEN d.out ELSE << >>]
      /\ UNCHANGED <<vars, writerVars, rd>>
-----------------------------------------------------------------------------
ReadStep == Decompress \/ TakeUnit \/ DecompressReturns \/ ReadEnd

FileNext ==
  \/ \E p \in Choices : open(p)
  \/ BeginFrame
  \/ \E n \in 0 .. MaxContent : write(n)
  \/ CompressData
  \/ flushFile
  \/ close
  \/ Closed
  \/ \E p \in Choices, n \in 0 .. MaxContent : CompressOneShot(n, p)
  \/ AppendSkippable
  \/ \E k \in 0 .. Len(disk) - 1, torn \in BOOLEAN : CutShort(k, torn)
  \/ \E raw \in RawReads : OpenForReading(raw)
  \/ CloseReader
  \/ \E size \in ReadSizes : read(size)
  \/ \E offset \in Offsets : seek(offset)
  \/ SkipData
  \/ ReadStep
  \/ DecompressOneShot

\* A read in progress goes on: its loop is Python code that nothing suspends.
FileSpec == FileInit /\ [][FileNext]_fileVars /\ WF_fileVars(ReadStep)
-----------------------------------------------------------------------------
\* After any number of opens, writes and flushes that all returned, the file is
\* a row of complete frames, and their content is what was given
\* (__init__.py:731, 745, 551).
ClosedIsWhole ==
  mode = "closed" /\ ~ failed /\ ~ cut =>
    Whole(disk).result = "end" /\ Whole(disk).out = Positions(0, total)

\* The file begins, writes and flushes in an order its compressor accepts, also
\* after a flush, twice in a row or not, and after a begin that raised
\* (__init__.py:731, 751; LZ4FrameCompressor.begin and compress, 211, 250).  Its
\* context refuses a call for coming outside a frame only where a call of that
\* frame has raised before: a flush that raised has ended the frame with _started
\* left True, for as long as the file is open (278-284).
InOrderUntilRaised ==
  [][ret'.status # "refused" /\ (ret'.status = "notStarted" => ~ clean)]_fileVars

\* Whatever has failed since, short of a write that did not reach the file, a
\* read returns the bytes that were given at its place, seeks included.
ReadsBack ==
  ~ lost => rd.data = Positions(rd.pos - Len(rd.data), Len(rd.data))

\* The end of the content is only reported where the last frame is complete
\* and all of it has been read: a cut file raises.  And only a file that is not
\* a row of complete frames raises, so nothing of it is lost between two reads.
EndIsHonest ==
  /\ rd.end => Whole(disk).result = "end" /\ rd.pos = Len(Whole(disk).out)
  /\ rd.raised => disk = << >> \/ Whole(disk).result # "end"

\* lz4.frame.decompress returns all the blocks of the first frame, or raises.
OneShotComplete ==
  shot.status = "decompressed" =>
    \E e \in DOMAIN disk :
      /\ disk[e].kind \in {"end", "skippable"}
      /\ \A k \in 1 .. e - 1 : disk[k].kind \in {"header", "block"}
      /\ shot.data = Whole(SubSeq(disk, 1, e)).out

\* lz4.frame.compress needs neither more room than it has allocated nor the
\* tmp buffer its context has not got (lz4frame.c:491).
OneShotFits ==
  /\ shot.ret.status = "ok" /\ shot.ret.written <= shot.ret.cap
  /\ shot.cctx.tmpInSize = 0 /\ DOMAIN shot.cctx.mem = {}
  /\ shot.cctx.prefs.linked /\ shot.cctx.dict.size > 0 => shot.cctx.dict.in = "src"

\* Every read comes back, with data, at the end of the file, or raising.
ReadReturns == rd.want > 0 ~> rd.want = 0
=============================================================================
