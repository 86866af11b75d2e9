---------------------------- MODULE FrameReader ----------------------------
(***************************************************************************)
(* What an incremental frame decompressor promises the caller of its       *)
(* calls: the frame's content arrives in order and complete, and its end   *)
(* is reported with the last of it, neither earlier nor later.  A call     *)
(* that raises spoils the frame; a restart turns to another one.           *)
(***************************************************************************)
EXTENDS Integers

VARIABLES phase,     \* "reading", "done" or "spoiled"
          content,   \* bytes in the content of the frame being read
          got        \* bytes of it the calls have returned

rvars == <<phase, content, got>>

ReaderInit == phase = "reading" /\ content \in Nat /\ got = 0

Deliver ==
  /\ phase = "reading" /\ phase' = "reading"
  /\ got' \in Nat /\ got' >= got /\ got' <= content
  /\ UNCHANGED content

Finish == phase = "reading" /\ phase' = "done" /\ got' = content /\ UNCHANGED content

Spoil == phase' = "spoiled" /\ UNCHANGED <<content, got>>

Restart == phase' = "reading" /\ content' \in Nat /\ got' = 0

ReaderNext == Deliver \/ Finish \/ Spoil \/ Restart

ReaderSpec == ReaderInit /\ [][ReaderNext]_rvars
=============================================================================
