---------------------------- MODULE FrameWriter ----------------------------
(***************************************************************************)
(* What an incremental frame compressor promises whoever concatenates the  *)
(* results of its calls: begin opens a frame, the bytes given go out in    *)
(* order, less than Lag of them at a time held back, and a flush closes    *)
(* the frame with all of them out.  A call that raises may spoil the       *)
(* frame, which then promises nothing until it is dropped.                 *)
(***************************************************************************)
EXTENDS Integers

CONSTANT Lag   \* a compressor holds back less than this many bytes

VARIABLES phase,   \* "idle", "open" or "spoiled"
          given,   \* bytes of content given for the frame
          out      \* bytes of it in what the calls returned

wvars == <<phase, given, out>>

WriterInit == phase = "idle" /\ given = 0 /\ out = 0

Open == phase # "open" /\ phase' = "open" /\ given' = 0 /\ out' = 0

Put ==
  /\ phase = "open" /\ phase' = "open"
  /\ given' \in Nat /\ given' >= given
  /\ out' \in Nat /\ out' >= out
  /\ out' <= given' /\ given' - out' < Lag

Close == phase = "open" /\ phase' = "idle" /\ given' = given /\ out' = given

Spoil == phase' = "spoiled" /\ given' = 0 /\ out' = 0

Drop == phase' = "idle" /\ given' = 0 /\ out' = 0

WriterNext == Open \/ Put \/ Close \/ Spoil \/ Drop

WriterSpec == WriterInit /\ [][WriterNext]_wvars
=============================================================================
