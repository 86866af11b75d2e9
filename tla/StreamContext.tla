--------------------------- MODULE StreamContext ---------------------------
(***************************************************************************)
(* The life of a lz4.stream context: what _create_context acquires, in     *)
(* which order, what each of its ways out gives back, and what is left to  *)
(* the capsule's destructor.                                               *)
(***************************************************************************)
EXTENDS StreamBounds, FiniteSets

CONSTANTS
  BufferSizes,   \* buffer_size arguments to try
  StoreSizes     \* store_comp_size arguments to try

ASSUME ContextAssumption == BufferSizes \subseteq Nat /\ StoreSizes \subseteq Nat

VARIABLES
  args,    \* the arguments
  stage,   \* what _create_context does next, or what it came to
  held     \* resources acquired and not given back

vars == <<args, stage, held>>

Resources == {"dict", "context", "pages", "output", "state"}

\* The stages in their order; a stage that fails goes to "abort".
Order == <<"dict", "store", "context", "names", "sizes", "pages", "output", "state", "capsule", "created">>

Place(s) == CHOOSE i \in DOMAIN Order : Order[i] = s

Init ==
  /\ args \in [strategy : {"double_buffer", "ring_buffer", "other"},
               direction : {"compress", "decompress", "other"},
               mode : {"default", "fast", "high_compression", "other"},
               buffer_size : BufferSizes, store_comp_size : StoreSizes,
               dict : {"none", "given", "too large"}]
  /\ stage = "dict"
  /\ held = IF args.dict = "none" THEN {} ELSE {"dict"}

Passes(s, acquired) ==
  /\ stage = s /\ stage' = Order[Place(s) + 1]
  /\ held' = held \cup acquired
  /\ UNCHANGED args

Aborts(s) == stage = s /\ stage' = "abort" /\ UNCHANGED <<args, held>>

NamesKnown ==
  /\ args.strategy # "other" /\ args.direction # "other" /\ args.mode # "other"

\* Mutant: the bound on the largest block is not compared with the prefix.
XSizesFit ==
  args.direction = "compress" => get_compress_bound(args.buffer_size) # 0

\* A decompressor's sizes are left to its calls.
SizesFit ==
  args.direction = "compress" => Accepted(args.buffer_size, args.store_comp_size)

CheckDict ==
  IF args.dict = "too large" THEN Aborts("dict") ELSE Passes("dict", {})

CheckStore ==
  IF args.store_comp_size \in {0, 1, 2, 4} THEN Passes("store", {}) ELSE Aborts("store")

AllocContext == Passes("context", {"context"}) \/ Aborts("context")

CheckNames == IF NamesKnown THEN Passes("names", {}) ELSE Aborts("names")

CheckSizes == IF SizesFit THEN Passes("sizes", {}) ELSE Aborts("sizes")

\* ring_buffer_reserve_resources only raises NotImplementedError.
ReservePages ==
  \/ args.strategy = "double_buffer" /\ Passes("pages", {"pages"})
  \/ Aborts("pages")

AllocOutput == Passes("output", {"output"}) \/ Aborts("output")

\* LZ4_createStream, ..HC or ..Decode, and the dictionary.
CreateState == Passes("state", {"state"}) \/ Aborts("state")

\* The dictionary's buffer is let go before the capsule is made; when that
\* fails there is no way back, and the context stays allocated.
MakeCapsule ==
  /\ stage = "capsule" /\ stage' \in {"created", "no capsule"}
  /\ held' = held \ {"dict"}
  /\ UNCHANGED args

-----------------------------------------------------------------------------
\* Mutant: the pages are released only when the strategy is complete.
XDestroyed(resources) == resources \cap {"context", "output", "state"}

\* What destroy_context finds to free.
Destroyed(resources) == resources \cap {"context", "pages", "output", "state"}

\* PyBuffer_Release, for a buffer that was acquired.
Buffer(resources) == resources \cap {"dict"}

Abort ==
  /\ stage = "abort" /\ stage' = "raised"
  /\ held' = held \ (Buffer(held) \cup Destroyed(held))
  /\ UNCHANGED args

\* destroy_py_context
DestroyCapsule ==
  /\ stage = "created" /\ stage' = "gone"
  /\ held' = held \ Destroyed(held)
  /\ UNCHANGED args

Next ==
  \/ CheckDict \/ CheckStore \/ AllocContext \/ CheckNames \/ CheckSizes
  \/ ReservePages \/ AllocOutput \/ CreateState \/ MakeCapsule
  \/ Abort \/ DestroyCapsule

Spec == Init /\ [][Next]_vars

-----------------------------------------------------------------------------
\* A creation that raised before it made the capsule, at whichever step, and a
\* context that is gone hold nothing.  Where PyCapsule_New fails, a whole context
\* is left with nobody to free it, all but the dictionary's buffer (_stream.c:1044).
OnlyCapsuleLeaks ==
  /\ stage \in {"raised", "gone"} => held = {}
  /\ stage = "no capsule" => held = {"context", "pages", "output", "state"}

\* A compressor that exists stores every length it can produce: with the sizes
\* it accepted, _compress never comes to "Compressed stream size too large".
LengthsFit ==
  (stage = "created" /\ args.direction = "compress") =>
    /\ held = {"context", "pages", "output", "state"}
    /\ get_compress_bound(args.buffer_size) \in 1 .. MaxUint(args.store_comp_size)
=============================================================================
