----------------------------- MODULE StreamProofs -----------------------------
(* lz4.stream: the size arithmetic, for every size the library accepts; what *)
(* a context holds at each point of its life; the stream of blocks its       *)
(* compressor writes, read back whole or cut short; and the two ends of a    *)
(* stream, the histories they match and copy from, and the pages they use.   *)
EXTENDS StreamWire, StreamPair, SumLemmas, SequenceTheorems

\* Division, as the provers use it.
LEMMA Quotient ==
  ASSUME NEW n \in Nat, NEW d \in Nat \ {0}
  PROVE  /\ n \div d \in Nat
         /\ d * (n \div d) =< n
         /\ n < d * (n \div d) + d
BY SMT

\* The limit, as a number the provers need not look into.
LEMMA MaxInputSize == LZ4_MAX_INPUT_SIZE \in Nat
BY SMT DEF LZ4_MAX_INPUT_SIZE

\* The output buffer of a compressor, get_compress_bound of its page, holds
\* every block the encoders can make of a chunk: compression cannot fail for
\* want of room.
THEOREM BoundSuffices == \A n \in 0 .. LZ4_MAX_INPUT_SIZE : FitsItsBound(n)
<1> SUFFICES ASSUME NEW n \in 0 .. LZ4_MAX_INPUT_SIZE PROVE FitsItsBound(n)
  OBVIOUS
<1>0. n \in Nat /\ get_compress_bound(n) = n + n \div 255 + 16
  BY MaxInputSize, SMT DEF get_compress_bound
<1>1. n \div 255 \in Nat /\ n < 255 * (n \div 255) + 255
  BY <1>0, Quotient, SMT
<1>2. CASE n < 15
  BY <1>0, <1>1, <1>2, SMT DEF FitsItsBound, largest_block
<1>3. CASE n >= 15
  <2>1. (n - 15) \div 255 \in Nat /\ 255 * ((n - 15) \div 255) =< n - 15
    BY <1>0, <1>3, Quotient, SMT
  <2>2. (n - 15) \div 255 =< n \div 255
    BY <1>0, <1>1, <2>1, SMT
  <2> QED
    BY <1>0, <1>1, <1>3, <2>1, <2>2, SMT DEF FitsItsBound, largest_block
<1> QED
  BY <1>0, <1>2, <1>3, SMT

\* Larger inputs have larger bounds, so nothing made from an accepted input is
\* beyond the largest bound.
LEMMA BelowLargestBound ==
  \A n \in 0 .. LZ4_MAX_INPUT_SIZE : largest_block(n) =< get_compress_bound(LZ4_MAX_INPUT_SIZE)
<1> SUFFICES ASSUME NEW n \in 0 .. LZ4_MAX_INPUT_SIZE
             PROVE  largest_block(n) =< get_compress_bound(LZ4_MAX_INPUT_SIZE)
  OBVIOUS
<1> DEFINE M == LZ4_MAX_INPUT_SIZE
<1>1. n \in Nat /\ M \in Nat /\ n =< M
  BY MaxInputSize, SMT
<1>2. /\ n \div 255 \in Nat /\ 255 * (n \div 255) =< n
      /\ M \div 255 \in Nat /\ M < 255 * (M \div 255) + 255
  BY <1>1, Quotient, SMT
<1>3. n \div 255 =< M \div 255
  BY <1>1, <1>2, SMT
<1>4. get_compress_bound(n) = n + n \div 255 + 16 /\ get_compress_bound(M) = M + M \div 255 + 16
  BY <1>1, SMT DEF get_compress_bound
<1>5. largest_block(n) \in Nat /\ largest_block(n) =< get_compress_bound(n)
  <2>1. n >= 15 => (n - 15) \div 255 \in Nat
    BY <1>1, Quotient, SMT
  <2> QED
    BY <1>1, <2>1, BoundSuffices, SMT DEF FitsItsBound, largest_block
<1> QED
  BY <1>1, <1>2, <1>3, <1>4, <1>5, SMT

\* get_input_bound is exact where it matters: of a block without a match it
\* tells the length of the chunk to within 14, and never more than the chunk.
\* So the check at the top of _decompress refuses no block that came from a
\* compressor with pages of the same size.
THEOREM OwnBlocksFit == \A n \in 0 .. LZ4_MAX_INPUT_SIZE : FitsItsPage(n)
<1> SUFFICES ASSUME NEW n \in 0 .. LZ4_MAX_INPUT_SIZE PROVE FitsItsPage(n)
  OBVIOUS
<1> DEFINE c == largest_block(n)
           r == (n - 15) \div 255
<1>1. n \in Nat /\ LZ4_MAX_INPUT_SIZE \in Nat /\ n =< LZ4_MAX_INPUT_SIZE
  BY MaxInputSize, SMT
<1>2. c =< get_compress_bound(LZ4_MAX_INPUT_SIZE)
  BY BelowLargestBound
<1>3. get_compress_bound(LZ4_MAX_INPUT_SIZE) \in Int
  <2>1. LZ4_MAX_INPUT_SIZE \div 255 \in Nat
    BY <1>1, Quotient, SMT
  <2> QED
    BY <1>1, <2>1, SMT DEF get_compress_bound
<1>4. CASE n < 15
  <2>1. c = n + 1
    BY <1>1, <1>4, SMT DEF largest_block
  <2>2. (1 + 255) \div 256 = 1
    BY SMT
  <2>3. get_input_bound(c) = 1
    BY <1>1, <1>2, <1>3, <1>4, <2>1, <2>2, SMT DEF get_input_bound
  <2> QED
    BY <1>1, <2>3, SMT DEF FitsItsPage
<1>5. CASE n >= 15
  <2>1. r \in Nat /\ 255 * r =< n - 15 /\ n - 15 < 255 * r + 255
    BY <1>1, <1>5, Quotient, SMT
  <2>2. c = n + 2 + r /\ c >= 16
    BY <1>1, <1>5, <2>1, SMT DEF largest_block
  <2> DEFINE e == (c - 16) + 255
  <2>3. e \in Nat /\ 256 * (r + 1) =< e /\ e < 256 * (r + 1) + 256
    BY <1>1, <1>5, <2>1, <2>2, SMT
  <2> HIDE DEF e
  <2>4. e \div 256 \in Nat /\ 256 * (e \div 256) =< e /\ e < 256 * (e \div 256) + 256
    BY <2>3, Quotient, SMT
  <2>5. e \div 256 = r + 1
    BY <2>1, <2>3, <2>4, SMT
  <2>6. get_input_bound(c) = n - 14
    BY <1>1, <1>2, <1>3, <1>5, <2>1, <2>2, <2>5, SMT DEF e, get_input_bound
  <2> QED
    BY <1>1, <1>5, <2>6, SMT DEF FitsItsPage
<1> QED
  BY <1>1, <1>4, <1>5, SMT

-----------------------------------------------------------------------------
(* The life of a context                                                     *)

\* The order of the stages.
LEMMA NextStage ==
  /\ Order[Place("dict") + 1] = "store"    /\ Order[Place("store") + 1] = "context"
  /\ Order[Place("context") + 1] = "names" /\ Order[Place("names") + 1] = "sizes"
  /\ Order[Place("sizes") + 1] = "pages"   /\ Order[Place("pages") + 1] = "output"
  /\ Order[Place("output") + 1] = "state"  /\ Order[Place("state") + 1] = "capsule"
<1>0. DOMAIN Order = 1 .. 10
  BY SMT DEF Order
<1>1. /\ Order[1] = "dict" /\ Order[2] = "store" /\ Order[3] = "context" /\ Order[4] = "names"
      /\ Order[5] = "sizes" /\ Order[6] = "pages" /\ Order[7] = "output" /\ Order[8] = "state"
      /\ Order[9] = "capsule" /\ Order[10] = "created"
  BY DEF Order
<1>2. \A i \in 1 .. 10 : i = 1 \/ i = 2 \/ i = 3 \/ i = 4 \/ i = 5 \/ i = 6 \/ i = 7 \/ i = 8 \/ i = 9 \/ i = 10
  BY SMT
<1>3. Place("dict") = 1 /\ Place("store") = 2
  BY <1>0, <1>1, <1>2 DEF Place
<1>4. Place("context") = 3 /\ Place("names") = 4
  BY <1>0, <1>1, <1>2 DEF Place
<1>5. Place("sizes") = 5 /\ Place("pages") = 6
  BY <1>0, <1>1, <1>2 DEF Place
<1>6. Place("output") = 7 /\ Place("state") = 8
  BY <1>0, <1>1, <1>2 DEF Place
<1> QED BY <1>1, <1>3, <1>4, <1>5, <1>6, SMT

\* What _create_context has acquired by each stage, the dictionary's buffer apart.
Acquired ==
  CASE stage \in {"dict", "store", "context"} -> {}
    [] stage \in {"names", "sizes", "pages"} -> {"context"}
    [] stage = "output" -> {"context", "pages"}
    [] stage = "state" -> {"context", "pages", "output"}
    [] stage \in {"capsule", "created", "no capsule"} -> {"context", "pages", "output", "state"}
    [] OTHER -> {}

BeforeCapsule == {"dict", "store", "context", "names", "sizes", "pages", "output", "state", "capsule"}
SizesChecked == {"pages", "output", "state", "capsule", "created", "no capsule", "gone"}

\* The inductive invariant: outside of "abort", where anything may be held, the
\* stage says what is; and a stage after the check of the sizes passed it.
ContextInv ==
  /\ args.buffer_size \in Nat /\ args.store_comp_size \in Nat
  /\ stage \in BeforeCapsule \cup {"created", "no capsule", "abort", "raised", "gone"}
  /\ held \subseteq Resources
  /\ stage # "abort" => held \ {"dict"} = Acquired
  /\ "dict" \in held => stage \in BeforeCapsule \cup {"abort"}
  /\ stage \notin {"dict", "store", "abort", "raised"} => args.store_comp_size \in {0, 1, 2, 4}
  /\ stage \in SizesChecked => SizesFit

LEMMA ContextInit == Init => ContextInv
BY ContextAssumption DEF Init, ContextInv, BeforeCapsule, Resources, Acquired, SizesChecked

LEMMA ContextStep == ContextInv /\ [Next]_vars => ContextInv'
<1> SUFFICES ASSUME ContextInv, [Next]_vars PROVE ContextInv'
  OBVIOUS
<1> USE DEF ContextInv, BeforeCapsule, Resources, Acquired, SizesChecked
<1>1. CASE CheckDict
  BY <1>1, NextStage DEF CheckDict, Aborts, Passes, SizesFit
<1>2. CASE CheckStore
  BY <1>2, NextStage DEF CheckStore, Aborts, Passes, SizesFit
<1>3. CASE AllocContext
  BY <1>3, NextStage DEF AllocContext, Aborts, Passes, SizesFit
<1>4. CASE CheckNames
  BY <1>4, NextStage DEF CheckNames, Aborts, Passes, SizesFit
<1>5. CASE CheckSizes
  BY <1>5, NextStage DEF CheckSizes, Aborts, Passes, SizesFit
<1>6. CASE ReservePages
  BY <1>6, NextStage DEF ReservePages, Aborts, Passes, SizesFit
<1>7. CASE AllocOutput
  BY <1>7, NextStage DEF AllocOutput, Aborts, Passes, SizesFit
<1>8. CASE CreateState
  BY <1>8, NextStage DEF CreateState, Aborts, Passes, SizesFit
<1>9. CASE MakeCapsule
  BY <1>9 DEF MakeCapsule, SizesFit
<1>10. CASE Abort
  BY <1>10 DEF Abort, Buffer, Destroyed, SizesFit
<1>11. CASE DestroyCapsule
  BY <1>11 DEF DestroyCapsule, Destroyed, SizesFit
<1>12. CASE UNCHANGED vars
  BY <1>12 DEF vars, SizesFit
<1> QED BY <1>1, <1>2, <1>3, <1>4, <1>5, <1>6, <1>7, <1>8, <1>9, <1>10, <1>11, <1>12 DEF Next

\* The bound on the largest block, of whatever size.
LEMMA BoundIsNat == \A n \in Nat : get_compress_bound(n) \in Nat
<1> SUFFICES ASSUME NEW n \in Nat PROVE get_compress_bound(n) \in Nat
  OBVIOUS
<1>1. n \div 255 \in Nat
  BY Quotient, SMT
<1> QED BY <1>1, SMT DEF get_compress_bound

LEMMA ContextLengths == ContextInv => LengthsFit
<1> SUFFICES ASSUME ContextInv, stage = "created", args.direction = "compress" PROVE
      /\ held = {"context", "pages", "output", "state"}
      /\ get_compress_bound(args.buffer_size) \in 1 .. MaxUint(args.store_comp_size)
  BY DEF LengthsFit
<1>1. held = {"context", "pages", "output", "state"}
  BY DEF ContextInv, Acquired, BeforeCapsule, Resources
<1>2. /\ get_compress_bound(args.buffer_size) # 0
      /\ get_compress_bound(args.buffer_size) =< MaxUint(args.store_comp_size)
  BY DEF ContextInv, SizesChecked, SizesFit, Accepted
<1>3. get_compress_bound(args.buffer_size) \in Nat
  BY BoundIsNat DEF ContextInv
<1>4. MaxUint(args.store_comp_size) \in Nat
  BY SMT DEF MaxUint
<1> QED BY <1>1, <1>2, <1>3, <1>4, SMT
-----------------------------------------------------------------------------
(* The stream                                                                *)

\* A block the compressor let through: its field holds its length, and the page
\* of a reader with the same sizes takes it.
Fitting(b) ==
  /\ b \in Nat /\ b =< MaxUint(Width)
  /\ args.buffer_size > 0 => get_input_bound(b) \in 1 .. args.buffer_size

AsWritten == fields = blocks /\ blocks \in Seq(Nat) /\ \A k \in DOMAIN blocks : Fitting(blocks[k])

\* The reader stands between two blocks, behind the ones it has got.
AtBlock ==
  /\ read \in Seq(Nat) /\ Len(read) =< Len(blocks) /\ read = SubSeq(blocks, 1, Len(read))
  /\ offset = Laid(Len(read))

\* Blocks come from a compressor with a prefix, which may be gone by now.
UsedAs == stage \in {"created", "gone"} /\ args.direction = "compress" /\ Width \in {1, 2, 4}

WireInv ==
  /\ ContextInv
  /\ blocks # << >> \/ have # -1 => UsedAs
  /\ AsWritten /\ AtBlock
  /\ have \in Int /\ outcome \in {"going", "complete", "raised"}
  /\ have = -1 => read = << >> /\ outcome = "going"
  /\ have # -1 => offset =< have /\ have =< Laid(Len(blocks))
  /\ outcome = "complete" => have = offset /\ have # -1
  /\ (outcome = "raised" /\ args.buffer_size > 0) => have < Laid(Len(blocks))

\* How the stream grows from block to block.
LEMMA LaidNext ==
  ASSUME blocks \in Seq(Nat), Width \in Nat
  PROVE  /\ Laid(0) = 0
         /\ \A n \in 0 .. Len(blocks) : Laid(n) \in Nat
         /\ \A n \in 0 .. Len(blocks) : n < Len(blocks) =>
              /\ Laid(n + 1) = Laid(n) + (Width + blocks[n + 1])
              /\ Laid(n + 1) =< Laid(Len(blocks))
<1> DEFINE w == [k \in DOMAIN blocks |-> Width + blocks[k]]
<1>1. /\ Len(blocks) \in Nat /\ DOMAIN blocks = 1 .. Len(blocks)
      /\ \A k \in 1 .. Len(blocks) : w[k] \in Nat /\ w[k] = Width + blocks[k]
  BY SMT
<1>2. \A n : Laid(n) = Sum(w, n)
  BY DEF Laid
<1> HIDE DEF w
<1>3. Laid(0) = 0
  BY <1>2, SumZero
<1>4. \A n \in 0 .. Len(blocks) : Laid(n) \in Nat /\ Laid(n) =< Laid(Len(blocks))
  BY <1>1, <1>2, SumGrows
<1>5. ASSUME NEW n \in 0 .. Len(blocks), n < Len(blocks)
      PROVE  Laid(n + 1) = Laid(n) + (Width + blocks[n + 1]) /\ Laid(n + 1) =< Laid(Len(blocks))
  <2>1. n \in Nat /\ n + 1 \in 1 .. Len(blocks) /\ n + 1 \in 0 .. Len(blocks)
    BY <1>1, <1>5, SMT
  <2>2. \A j \in 1 .. n + 1 : w[j] \in Int
    BY <1>1, <2>1, SMT
  <2>3. Sum(w, n + 1) = Sum(w, n) + w[n + 1]
    BY <2>1, <2>2, SumNext
  <2> QED BY <1>1, <1>2, <1>4, <2>1, <2>3
<1> QED BY <1>3, <1>4, <1>5

\* What _compress lets through fits: one byte in any page, and the largest block
\* of a full page in the page it came from.
LEMMA BlocksFit ==
  ASSUME ContextInv, UsedAs, NEW csize \in {1, largest_block(args.buffer_size)},
         csize =< MaxUint(Width)
  PROVE  Fitting(csize) /\ Field(csize, Width) = csize
<1> DEFINE B == args.buffer_size
<1>1. B \in Nat /\ get_compress_bound(B) # 0
  BY DEF ContextInv, UsedAs, SizesChecked, SizesFit, Accepted
<1>2. B \in 0 .. LZ4_MAX_INPUT_SIZE
  BY <1>1, MaxInputSize, SMT DEF get_compress_bound
<1>3. largest_block(B) \in Nat /\ largest_block(0) = 1
  <2>1. B >= 15 => (B - 15) \div 255 \in Nat
    BY <1>1, Quotient, SMT
  <2> QED BY <1>1, <2>1, SMT DEF largest_block
<1>4. get_input_bound(largest_block(B)) \in 1 .. (IF B = 0 THEN 1 ELSE B)
  BY <1>2, OwnBlocksFit DEF FitsItsPage
<1>5. get_input_bound(1) = 1
  <2>1. 0 \in 0 .. LZ4_MAX_INPUT_SIZE
    BY MaxInputSize, SMT
  <2>2. get_input_bound(largest_block(0)) \in 1 .. (IF 0 = 0 THEN 1 ELSE 0)
    BY <2>1, OwnBlocksFit DEF FitsItsPage
  <2> QED BY <1>3, <2>2, SMT
<1>6. Fitting(csize)
  BY <1>1, <1>3, <1>4, <1>5, SMT DEF Fitting
<1>7. csize \in Nat /\ Width \in {1, 2, 4}
  BY <1>3, SMT DEF UsedAs
<1>8. Field(csize, Width) = csize
  BY <1>7, SMT DEF Field, MaxUint
<1> QED BY <1>6, <1>8

LEMMA WireInvInit == WireInit => WireInv
<1> SUFFICES ASSUME WireInit PROVE WireInv
  OBVIOUS
<1>1. ContextInv
  BY ContextInit DEF WireInit
<1>2. blocks = << >> /\ fields = << >> /\ read = << >> /\ have = -1 /\ offset = 0 /\ outcome = "going"
  BY DEF WireInit
<1>3. Laid(0) = 0
  BY SumZero DEF Laid
<1>4. AsWritten
  BY <1>2 DEF AsWritten
<1>5. AtBlock
  BY <1>2, <1>3, SMT DEF AtBlock
<1> QED BY <1>1, <1>2, <1>4, <1>5 DEF WireInv

\* Steps of the context's life leave the stream alone.
LEMMA LifeKeepsStream ==
  ASSUME WireInv, Next, UNCHANGED wireVars
  PROVE  WireInv'
<1>1. ContextInv'
  BY ContextStep DEF WireInv
<1>2. /\ args' = args /\ blocks' = blocks /\ fields' = fields /\ have' = have
      /\ offset' = offset /\ read' = read /\ outcome' = outcome
  <2>1. args' = args
    BY DEF Next, CheckDict, CheckStore, AllocContext, CheckNames, CheckSizes, ReservePages,
           AllocOutput, CreateState, MakeCapsule, Abort, DestroyCapsule, Passes, Aborts
  <2> QED BY <2>1 DEF wireVars
<1>3. UsedAs => UsedAs'
  BY <1>2 DEF UsedAs, Width, Next, CheckDict, CheckStore, AllocContext, CheckNames, CheckSizes, ReservePages,
       AllocOutput, CreateState, MakeCapsule, Abort, DestroyCapsule, Passes, Aborts
<1>4. \A n : Laid(n)' = Laid(n)
  BY <1>2 DEF Laid, Width
<1>5. AsWritten' /\ AtBlock'
  BY <1>2, <1>4 DEF WireInv, AsWritten, AtBlock, Fitting, Width
<1> QED BY <1>1, <1>2, <1>3, <1>4, <1>5 DEF WireInv

LEMMA AppendKeepsStream ==
  ASSUME WireInv, NEW n \in {0, args.buffer_size}, NEW csize \in {1, largest_block(n)}, AppendBlock(n, csize)
  PROVE  WireInv'
<1>1. /\ args' = args /\ stage' = stage /\ held' = held /\ have' = have /\ have = -1
      /\ offset' = offset /\ read' = read /\ outcome' = outcome
      /\ blocks' = Append(blocks, csize) /\ fields' = Append(fields, Field(csize, Width))
      /\ csize =< MaxUint(Width) /\ Streaming
  BY DEF AppendBlock, vars
<1>2. ContextInv'
  BY <1>1 DEF WireInv, ContextInv, Acquired, SizesFit
<1>3. UsedAs
  <2>1. args.store_comp_size \in {0, 1, 2, 4}
    BY <1>1, SMT DEF WireInv, ContextInv, Streaming
  <2> QED BY <1>1, <2>1 DEF UsedAs, Streaming, Width
<1>4. UsedAs'
  BY <1>1, <1>3 DEF UsedAs, Width
<1>5. csize \in {1, largest_block(args.buffer_size)}
  BY SMT DEF largest_block
<1>6. Fitting(csize) /\ Field(csize, Width) = csize
  BY <1>1, <1>3, <1>5, BlocksFit DEF WireInv
<1>7. AsWritten'
  <2>1. blocks \in Seq(Nat) /\ fields = blocks /\ csize \in Nat
    BY <1>6 DEF WireInv, AsWritten, Fitting
  <2>2. /\ Append(blocks, csize) \in Seq(Nat)
        /\ \A k \in DOMAIN Append(blocks, csize) :
             (k \in DOMAIN blocks /\ Append(blocks, csize)[k] = blocks[k]) \/ Append(blocks, csize)[k] = csize
    BY <2>1, SMT
  <2>3. \A b : Fitting(b)' = Fitting(b)
    BY <1>1 DEF Fitting, Width
  <2> QED BY <1>1, <1>6, <2>1, <2>2, <2>3 DEF WireInv, AsWritten
<1>8. AtBlock'
  <2>1. read = << >> /\ offset = Laid(0)
    BY <1>1 DEF WireInv, AtBlock
  <2>2. Laid(0) = 0 /\ Laid(0)' = 0
    BY SumZero DEF Laid
  <2>3. Append(blocks, csize) \in Seq(Nat)
    BY <1>6 DEF WireInv, AsWritten, Fitting
  <2> QED BY <1>1, <2>1, <2>2, <2>3 DEF AtBlock
<1> QED BY <1>1, <1>2, <1>4, <1>7, <1>8 DEF WireInv

LEMMA DeliverKeepsStream ==
  ASSUME WireInv, NEW cut \in Cuts, Deliver(cut)
  PROVE  WireInv'
<1>1. /\ args' = args /\ stage' = stage /\ held' = held /\ have = -1 /\ have' = Laid(Len(blocks)) - cut
      /\ offset' = offset /\ read' = read /\ outcome' = outcome /\ blocks' = blocks /\ fields' = fields
      /\ Laid(Len(blocks)) >= cut /\ Streaming
  BY DEF Deliver, vars
<1>2. ContextInv'
  BY <1>1 DEF WireInv, ContextInv, Acquired, SizesFit
<1>3. UsedAs'
  <2>1. args.store_comp_size \in {0, 1, 2, 4}
    BY <1>1, SMT DEF WireInv, ContextInv, Streaming
  <2> QED BY <1>1, <2>1 DEF UsedAs, Streaming, Width
<1>4. \A n : Laid(n)' = Laid(n)
  BY <1>1 DEF Laid, Width
<1>5. AsWritten' /\ AtBlock'
  BY <1>1, <1>4 DEF WireInv, AsWritten, AtBlock, Fitting, Width
<1>6. read = << >> /\ outcome = "going" /\ offset = 0 /\ Laid(Len(blocks)) \in Nat
  <2>1. read = << >> /\ outcome = "going" /\ blocks \in Seq(Nat) /\ Width \in Nat
    BY <1>1 DEF WireInv, AsWritten, ContextInv, Width
  <2>2. Len(blocks) \in 0 .. Len(blocks)
    BY <2>1, SMT
  <2> QED BY <2>1, <2>2, LaidNext DEF WireInv, AtBlock
<1>7. cut \in Nat
  BY WireAssumption
<1>8. have' \in Int /\ have' >= 0 /\ have' =< Laid(Len(blocks)) /\ have' # -1
  BY <1>1, <1>6, <1>7, SMT
<1> QED BY <1>1, <1>2, <1>3, <1>4, <1>5, <1>6, <1>8 DEF WireInv

\* The reader gets the next block, or notices that it is not all there.
LEMMA ReadKeepsStream ==
  ASSUME WireInv, Read
  PROVE  WireInv'
<1> DEFINE n == Len(read)
<1>1. /\ args' = args /\ stage' = stage /\ held' = held /\ have' = have
      /\ blocks' = blocks /\ fields' = fields /\ have >= 0 /\ outcome = "going" /\ have - offset > 0
  BY DEF Read, vars, Available
<1>2. ContextInv' /\ (UsedAs => UsedAs')
  BY <1>1 DEF WireInv, ContextInv, Acquired, SizesFit, UsedAs, Width
<1>3. \A k : Laid(k)' = Laid(k)
  BY <1>1 DEF Laid, Width
<1>4. AsWritten'
  BY <1>1 DEF WireInv, AsWritten, Fitting, Width
<1>5. /\ blocks \in Seq(Nat) /\ read \in Seq(Nat) /\ n \in Nat /\ n =< Len(blocks) /\ Len(blocks) \in Nat
      /\ fields = blocks /\ read = SubSeq(blocks, 1, n) /\ offset = Laid(n) /\ have \in Int
      /\ offset =< have /\ have =< Laid(Len(blocks))
  <2>1. have # -1
    BY <1>1, SMT DEF WireInv
  <2> QED BY <2>1, SMT DEF WireInv, AsWritten, AtBlock
<1>6. Width \in Nat /\ UsedAs
  <2>1. have # -1
    BY <1>1, SMT
  <2> QED BY <2>1 DEF WireInv, ContextInv, Width
<1>7. n < Len(blocks)
  <2>1. Laid(n) \in Nat
    <3>1. n \in 0 .. Len(blocks)
      BY <1>5, SMT
    <3> QED BY <1>5, <1>6, <3>1, LaidNext
  <2>2. Laid(n) # Laid(Len(blocks))
    BY <1>1, <1>5, <2>1, SMT
  <2>3. n # Len(blocks)
    BY <2>2
  <2> QED BY <1>5, <2>3, SMT
<1>8. /\ Laid(n) \in Nat /\ Laid(n + 1) = Laid(n) + (Width + blocks[n + 1])
      /\ Laid(n + 1) =< Laid(Len(blocks)) /\ Laid(Len(blocks)) \in Nat
  <2>1. n \in 0 .. Len(blocks) /\ Len(blocks) \in 0 .. Len(blocks)
    BY <1>5, SMT
  <2> QED BY <1>5, <1>6, <1>7, <2>1, LaidNext
<1>9. load_block_length = blocks[n + 1] /\ blocks[n + 1] \in Nat /\ Fitting(blocks[n + 1])
  <2>1. n + 1 \in DOMAIN blocks
    BY <1>5, <1>7, SMT
  <2> QED BY <1>5, <2>1 DEF load_block_length, WireInv, AsWritten, Fitting
<1>10. CASE Whole /\ Taken(load_block_length)
  <2>1. read' = Append(read, blocks[n + 1]) /\ offset' = offset + Width + blocks[n + 1] /\ outcome' = outcome
    BY <1>9, <1>10 DEF Read
  <2>2. have - offset - Width >= blocks[n + 1]
    BY <1>9, <1>10 DEF Whole, Available
  <2>3. read' \in Seq(Nat) /\ Len(read') = n + 1
    BY <1>5, <1>9, <2>1, SMT
  <2>4. read' = SubSeq(blocks, 1, n + 1)
    <3>1. \A k \in 1 .. n : SubSeq(blocks, 1, n)[k] = blocks[k]
      BY <1>5, SMT
    <3>2. SubSeq(blocks, 1, n + 1) \in Seq(Nat) /\ Len(SubSeq(blocks, 1, n + 1)) = n + 1
      BY <1>5, <1>7, SMT
    <3>3. \A k \in 1 .. n + 1 : SubSeq(blocks, 1, n + 1)[k] = blocks[k]
      BY <1>5, <1>7, SMT
    <3>4. \A k \in 1 .. n + 1 : read'[k] = blocks[k]
      <4>1. \A k \in 1 .. n : read'[k] = read[k] /\ read[k] = blocks[k]
        BY <1>5, <2>1, <3>1, SMT
      <4>2. read'[n + 1] = blocks[n + 1]
        BY <1>5, <2>1, SMT
      <4> QED BY <1>5, <4>1, <4>2, SMT
    <3> QED BY <2>3, <3>2, <3>3, <3>4, SeqEqual, SMT
  <2>5. offset' = Laid(n + 1) /\ offset' =< have
    BY <1>5, <1>6, <1>8, <1>9, <2>1, <2>2, SMTT(60)
  <2>6. AtBlock'
    BY <1>1, <1>3, <1>5, <1>7, <2>3, <2>4, <2>5, SMT DEF AtBlock
  <2>7. have # -1 /\ outcome' = "going"
    BY <1>1, <2>1, SMT
  <2> QED BY <1>1, <1>2, <1>3, <1>4, <1>5, <1>6, <2>5, <2>6, <2>7 DEF WireInv
<1>11. CASE ~ (Whole /\ Taken(load_block_length))
  <2>1. read' = read /\ offset' = offset /\ outcome' = "raised"
    BY <1>11 DEF Read
  <2>2. AtBlock'
    BY <1>1, <1>3, <2>1 DEF WireInv, AtBlock
  <2>3. have # -1
    BY <1>1, SMT
  <2>4. args.buffer_size > 0 => have < Laid(Len(blocks))
    <3>1. SUFFICES ASSUME args.buffer_size > 0 PROVE have < Laid(Len(blocks))
      OBVIOUS
    <3>2. Taken(load_block_length)
      BY <1>9, <3>1 DEF Taken, Fitting
    <3>3. ~ (have - offset >= Width /\ have - offset - Width >= blocks[n + 1])
      BY <1>9, <1>11, <3>2 DEF Whole, Available
    <3> QED BY <1>5, <1>6, <1>8, <1>9, <3>3, SMT
  <2> QED BY <1>1, <1>2, <1>3, <1>4, <1>5, <1>6, <2>1, <2>2, <2>3, <2>4 DEF WireInv
<1> QED BY <1>10, <1>11

LEMMA FinishKeepsStream ==
  ASSUME WireInv, Finish
  PROVE  WireInv'
<1>1. /\ args' = args /\ stage' = stage /\ held' = held /\ have' = have /\ offset' = offset /\ read' = read
      /\ blocks' = blocks /\ fields' = fields /\ have >= 0 /\ have - offset =< 0 /\ outcome' = "complete"
  BY DEF Finish, vars, Available
<1>2. ContextInv' /\ (UsedAs => UsedAs')
  BY <1>1 DEF WireInv, ContextInv, Acquired, SizesFit, UsedAs, Width
<1>3. \A k : Laid(k)' = Laid(k)
  BY <1>1 DEF Laid, Width
<1>4. AsWritten' /\ AtBlock'
  BY <1>1, <1>3 DEF WireInv, AsWritten, AtBlock, Fitting, Width
<1>5. offset = have /\ have # -1
  <2>1. have \in Int /\ have # -1
    BY <1>1, SMT DEF WireInv
  <2>2. offset \in Nat /\ offset =< have
    <3>1. blocks \in Seq(Nat) /\ Width \in Nat /\ read \in Seq(Nat) /\ Len(read) =< Len(blocks)
      BY DEF WireInv, AsWritten, AtBlock, ContextInv, Width
    <3>2. Len(read) \in 0 .. Len(blocks)
      BY <3>1, SMT
    <3> QED BY <2>1, <3>1, <3>2, LaidNext DEF WireInv, AtBlock
  <2> QED BY <1>1, <2>1, <2>2, SMT
<1> QED BY <1>1, <1>2, <1>3, <1>4, <1>5 DEF WireInv

LEMMA WireInvStep == WireInv /\ [WireNext]_<<vars, wireVars>> => WireInv'
<1> SUFFICES ASSUME WireInv, [WireNext]_<<vars, wireVars>> PROVE WireInv'
  OBVIOUS
<1>1. CASE Next /\ UNCHANGED wireVars
  BY <1>1, LifeKeepsStream
<1>2. ASSUME NEW n \in {0, args.buffer_size}, NEW csize \in {1, largest_block(n)}, AppendBlock(n, csize)
      PROVE  WireInv'
  BY <1>2, AppendKeepsStream
<1>3. ASSUME NEW cut \in Cuts, Deliver(cut) PROVE WireInv'
  BY <1>3, DeliverKeepsStream
<1>4. CASE ReadStep
  BY <1>4, ReadKeepsStream, FinishKeepsStream DEF ReadStep
<1>5. CASE UNCHANGED <<vars, wireVars>>
  <2>1. /\ args' = args /\ stage' = stage /\ held' = held /\ have' = have /\ offset' = offset
        /\ blocks' = blocks /\ fields' = fields /\ read' = read /\ outcome' = outcome
    BY <1>5 DEF vars, wireVars
  <2>2. \A k : Laid(k)' = Laid(k)
    BY <2>1 DEF Laid, Width
  <2>3. AsWritten' /\ AtBlock' /\ ContextInv' /\ (UsedAs => UsedAs')
    BY <2>1, <2>2 DEF WireInv, AsWritten, AtBlock, Fitting, Width, ContextInv, Acquired, SizesFit, UsedAs
  <2> QED BY <2>1, <2>2, <2>3 DEF WireInv
<1> QED BY <1>1, <1>2, <1>3, <1>4, <1>5 DEF WireNext

LEMMA WireInvariant == WireSpec => []WireInv
<1>1. WireInit => WireInv
  BY WireInvInit
<1>2. WireInv /\ [WireNext]_<<vars, wireVars>> => WireInv'
  BY WireInvStep
<1> QED BY <1>1, <1>2, PTL DEF WireSpec
-----------------------------------------------------------------------------
\* Whatever fails in _create_context before the capsule, and however a context
\* ends, nothing it acquired is left; a capsule that cannot be made leaves all
\* but the dictionary's buffer (_stream.c:694-751, 797-1044).
THEOREM LeaksOnlyAtCapsule == WireSpec => []OnlyCapsuleLeaks
<1>1. WireInv => OnlyCapsuleLeaks
  BY DEF WireInv, ContextInv, OnlyCapsuleLeaks, Acquired, BeforeCapsule, Resources
<1> QED BY <1>1, WireInvariant, PTL

\* A compressor is made only for sizes whose every length fits the prefix.
THEOREM CompressorLengthsFit == WireSpec => []LengthsFit
<1>1. WireInv => LengthsFit
  BY ContextLengths DEF WireInv
<1> QED BY <1>1, WireInvariant, PTL

\* A stream cut inside a block is never read as a shorter one, for every page
\* size, prefix, number of blocks and cut.
THEOREM CutsAreNoticed == WireSpec => []CutIsNoticed
<1>1. WireInv => CutIsNoticed
  <2> SUFFICES ASSUME WireInv, outcome = "complete"
               PROVE  \E n \in 0 .. Len(blocks) : have = Laid(n) /\ read = SubSeq(blocks, 1, n)
    BY DEF CutIsNoticed
  <2>1. have = Laid(Len(read)) /\ read = SubSeq(blocks, 1, Len(read))
    BY DEF WireInv, AtBlock
  <2>2. Len(read) \in 0 .. Len(blocks)
    BY SMT DEF WireInv, AtBlock, AsWritten
  <2> QED BY <2>1, <2>2
<1> QED BY <1>1, WireInvariant, PTL

\* A whole stream from a compressor is read by any decompressor of its sizes.
THEOREM WholeStreamsAreRead == WireSpec => []WholeIsRead
<1>1. WireInv => WholeIsRead
  BY DEF WireInv, WholeIsRead
<1> QED BY <1>1, WireInvariant, PTL

-----------------------------------------------------------------------------
(* Both ends of a stream.                                                    *)

Uncut == got \notin {"refused", "error"}

\* The parts of the state of StreamPair that its steps take apart, and the page
\* each side is at: the reader's is one behind while a block is on its way.
PairShape ==
  /\ conf \in Streams /\ given \in Nat
  /\ enc.page \in {0, 1} /\ dec.page \in {0, 1}
  /\ wire # NoBlock => /\ wire.n \in 0 .. PageSize /\ wire.csize \in {1, largest_block(wire.n)}
                       /\ got \in {"nothing", "exact", "lost"}
  /\ Uncut => enc.page = IF wire = NoBlock THEN dec.page ELSE OtherPage(dec.page)

\* A block has at least a token, so it is not taken for none.
LEMMA LargestBlockIs == \A n \in Nat : largest_block(n) \in Nat \ {0}
<1> SUFFICES ASSUME NEW n \in Nat PROVE largest_block(n) \in Nat \ {0}
  OBVIOUS
<1>1. CASE n < 15
  BY <1>1, SMT DEF largest_block
<1>2. CASE ~ (n < 15)
  <2>1. (n - 15) \div 255 \in Nat
    BY <1>2, Quotient, SMT
  <2> QED BY <1>2, <2>1, SMT DEF largest_block
<1> QED BY <1>1, <1>2

LEMMA BlockIs ==
  ASSUME NEW mem, NEW src, NEW n \in Nat, NEW csize \in {1, largest_block(n)}
  PROVE  LET b == Block(mem, src, n, csize)
         IN  b # NoBlock /\ b.n = n /\ b.csize = csize /\ b.from = given
<1>1. csize # 0
  BY LargestBlockIs, SMT
<1> QED BY <1>1 DEF Block, NoBlock

LEMMA PageIsNat == PageSize \in Nat \ {0} /\ PageSize \in 0 .. LZ4_MAX_INPUT_SIZE
BY PairAssumption, MaxInputSize, SMT

LEMMA ConfIs ==
  ASSUME conf \in Streams
  PROVE  /\ conf.mode \in {"fast", "hc"} /\ conf.sizes \subseteq 0 .. PageSize
         /\ conf.dict \in Nat /\ conf.decPage \in Nat
BY PairAssumption DEF StreamRecord

LEMMA OtherPageIs == \A page \in {0, 1} : OtherPage(page) \in {0, 1} /\ OtherPage(OtherPage(page)) = page /\ OtherPage(page) # page
BY SMT DEF OtherPage

LEMMA PairShapeInit == PairInit => PairShape
<1> SUFFICES ASSUME PairInit PROVE PairShape
  OBVIOUS
<1>1. conf \in Streams /\ given = conf.dict /\ wire = NoBlock /\ enc.page = 0 /\ dec.page = 0
  BY DEF PairInit
<1> QED BY <1>1, ConfIs DEF PairShape

LEMMA PairShapeStep == PairShape /\ [PairNext]_pairVars => PairShape'
<1> SUFFICES ASSUME PairShape, [PairNext]_pairVars PROVE PairShape'
  OBVIOUS
<1>0. conf.sizes \subseteq Nat
  BY ConfIs DEF PairShape
<1>1. ASSUME NEW n \in 0 .. PageSize, NEW csize \in {1, largest_block(n)}, Compress(n, csize)
      PROVE  PairShape'
  <2>1. n \in Nat /\ given' = given + n /\ given' \in Nat
    BY <1>1, SMT DEF Compress, PairShape
  <2>2. wire' # NoBlock /\ wire'.n = n /\ wire'.csize = csize
    BY <1>1, <2>1, BlockIs DEF Compress
  <2>3. /\ wire = NoBlock /\ got \in {"nothing", "exact", "lost"} /\ got' = got /\ enc'.page = OtherPage(enc.page)
        /\ conf' = conf /\ dec' = dec
    BY <1>1 DEF Compress, Uncut
  <2> QED BY <2>1, <2>2, <2>3, OtherPageIs DEF PairShape, Uncut
<1>2. ASSUME NEW n \in 0 .. PageSize, CompressLost(n)
      PROVE  PairShape'
  <2>1. n \in Nat /\ given' = given + n /\ given' \in Nat
    BY <1>2, SMT DEF CompressLost, PairShape
  <2>2. enc'.page = enc.page /\ UNCHANGED <<conf, dec, wire, got>>
    BY <1>2 DEF CompressLost
  <2> QED BY <2>1, <2>2 DEF PairShape, Uncut
<1>3. ASSUME NEW wild \in {0, Wild}, NEW kept \in BOOLEAN, Decompress(wild, kept)
      PROVE  PairShape'
  <2>1. /\ wire # NoBlock /\ wire' = NoBlock /\ dec'.page = OtherPage(dec.page)
        /\ UNCHANGED <<conf, given, enc>>
    BY <1>3 DEF Decompress, Turned
  <2>2. Uncut => enc.page = dec'.page
    BY <2>1 DEF PairShape
  <2>3. Uncut
    BY <2>1 DEF PairShape, Uncut
  <2> QED BY <2>1, <2>2, <2>3, OtherPageIs DEF PairShape
<1>4. CASE DecompressFails
  <2>1. /\ wire' = NoBlock /\ got' = "error" /\ dec'.page = dec.page
        /\ UNCHANGED <<conf, given, enc>>
    BY <1>4 DEF DecompressFails
  <2> QED BY <2>1 DEF PairShape, Uncut
<1>5. CASE Refuse
  BY <1>5 DEF Refuse, PairShape, Uncut
<1>6. CASE FreeDict
  <2>1. enc'.page = enc.page /\ UNCHANGED <<conf, given, dec, wire, got>>
    BY <1>6 DEF FreeDict
  <2> QED BY <2>1 DEF PairShape, Uncut
<1>7. CASE UNCHANGED pairVars
  BY <1>7 DEF pairVars, PairShape, Uncut
<1> QED BY <1>1, <1>2, <1>3, <1>4, <1>5, <1>6, <1>7 DEF PairNext

-----------------------------------------------------------------------------
(* The histories of LZ4Streaming.                                            *)

Segments == [at : Int, size : Nat]
Histories == [prefix : Segments, ext : Segments]

LEMMA SegOf ==
  ASSUME NEW at \in Int, NEW size \in Nat
  PROVE  LET s == Seg(at, size)
         IN  s \in Segments /\ End(s) = at + size /\ s.at = at /\ s.size = size
BY SMT DEF Seg, End, Segments

LEMMA NoneOf ==
  ASSUME NEW at \in Int
  PROVE  LET s == None(at)
         IN  s \in Segments /\ End(s) = at /\ s.at = at /\ s.size = 0
BY SMT DEF Seg, None, End, Segments

LEMMA LastBytesOf ==
  ASSUME NEW end \in Int, NEW k \in Nat
  PROVE  LET s == LastBytes(end, k)
         IN  s \in Segments /\ End(s) = end /\ s.at = end - k /\ s.size = k
BY SMT DEF Seg, LastBytes, End, Segments

LEMMA SegmentParts ==
  ASSUME NEW s \in Segments
  PROVE  s.at \in Int /\ s.size \in Nat /\ End(s) \in Int /\ End(s) = s.at + s.size /\ s = Seg(s.at, s.size)
BY SMT DEF Seg, End, Segments

LEMMA HistoryOf ==
  ASSUME NEW p \in Segments, NEW e \in Segments
  PROVE  History(p, e) \in Histories /\ History(p, e).prefix = p /\ History(p, e).ext = e
BY DEF History, Histories

LEMMA HistoryParts ==
  ASSUME NEW h \in Histories
  PROVE  h.prefix \in Segments /\ h.ext \in Segments /\ h = History(h.prefix, h.ext)
BY DEF History, Histories

\* LZ4_stream_t: a dictionary that ends where the block starts is its prefix;
\* any other is beside it, cut by what the block covers.
LEMMA FastClippedIs ==
  ASSUME NEW d \in Segments, NEW src \in Nat, NEW n \in Nat
  PROVE  LET e == FastClipped(d, src, n)
         IN  /\ e \in Segments /\ End(e) = End(d) /\ e.size =< d.size
             /\ (src + n > d.at /\ src + n < End(d)) => e.size =< End(d) - (src + n)
             /\ End(d) = src => e = d
<1> DEFINE left == Lesser(End(d) - (src + n), KB64)
           cut == d.size > 0 /\ src + n > d.at /\ src + n < End(d)
<1>0. KB64 \in Nat /\ MinDict \in Nat /\ d.at \in Int /\ d.size \in Nat /\ End(d) = d.at + d.size
  BY StreamingAssumption, SegmentParts, HistoryParts
<1>1. CASE cut
  <2>1. left \in Nat /\ left =< End(d) - (src + n) /\ left =< d.size
    BY <1>0, <1>1, SMT DEF Lesser
  <2> DEFINE kept == IF left < MinDict THEN 0 ELSE left
  <2>2. FastClipped(d, src, n) = LastBytes(End(d), kept)
    BY <1>1 DEF FastClipped
  <2>3. kept \in Nat /\ kept =< left
    BY <1>0, <2>1, SMT
  <2> HIDE DEF kept, left
  <2>4. End(d) # src
    BY <1>0, <1>1, SMT
  <2>5. End(d) \in Int
    BY <1>0, SMT
  <2>6. /\ LastBytes(End(d), kept) \in Segments /\ End(LastBytes(End(d), kept)) = End(d)
        /\ LastBytes(End(d), kept).size = kept
    BY <2>3, <2>5, LastBytesOf
  <2>7. kept =< d.size /\ kept =< End(d) - (src + n)
    BY <1>0, <2>1, <2>3, <2>5, SMT
  <2> QED BY <2>2, <2>4, <2>6, <2>7
<1>2. CASE ~ cut
  <2>1. FastClipped(d, src, n) = d
    BY <1>2 DEF FastClipped
  <2>2. ~ (src + n > d.at /\ src + n < End(d))
    BY <1>0, <1>2, SMT
  <2> QED BY <1>0, <2>1, <2>2, SMT
<1> QED BY <1>1, <1>2

LEMMA FastHistoryIs ==
  ASSUME NEW d \in Segments, NEW src \in Nat, NEW n \in Nat
  PROVE  LET h == FastHistory(d, src, n)
         IN  /\ h \in Histories
             /\ (End(d) = src /\ d.size > 0) => h = History(d, None(src))
             /\ (End(d) # src \/ d.size = 0) =>
                  /\ h.prefix = None(src) /\ h.ext.size =< d.size
                  /\ h.ext.size > 0 => End(h.ext) = End(d)
                  /\ (src + n > d.at /\ src + n < End(d)) => h.ext.size =< End(d) - (src + n)
<1> DEFINE f == FastInvalidated(d, src, n)
           e == FastClipped(f, src, n)
           h == FastHistory(d, src, n)
<1>0. MinDict \in Nat /\ src \in Int /\ d.at \in Int /\ d.size \in Nat /\ End(d) = d.at + d.size
  BY StreamingAssumption, SegmentParts, HistoryParts
<1>1. h = IF End(e) = src THEN History(e, None(src)) ELSE History(None(src), e)
  BY DEF FastHistory
<1>2. f = d \/ (f = None(src) /\ (d.size = 0 \/ End(d) # src))
  BY DEF FastInvalidated
<1>3. CASE f = d
  <2>1. /\ e \in Segments /\ End(e) = End(d) /\ e.size =< d.size
        /\ (src + n > d.at /\ src + n < End(d)) => e.size =< End(d) - (src + n)
        /\ End(d) = src => e = d
    BY <1>3, FastClippedIs
  <2> HIDE DEF e
  <2>2. CASE End(d) = src
    <3>1. h = History(d, None(src)) /\ h \in Histories /\ h.prefix = d /\ h.ext = None(src)
      BY <1>0, <1>1, <2>1, <2>2, NoneOf, HistoryOf
    <3>2. d.size = 0 => d = None(src)
        <4>1. d = Seg(d.at, d.size)
        BY SegmentParts
      <4>2. d.size = 0 => d.at = src
        BY <1>0, <2>2, SMT
      <4> QED BY <4>1, <4>2 DEF None
    <3>3. h.ext.size = 0 /\ ~ (src + n < End(d))
      BY <1>0, <2>2, <3>1, NoneOf, SMT
    <3> HIDE DEF h
    <3> QED BY <1>0, <2>2, <3>1, <3>2, <3>3, SMT DEF h
  <2>3. CASE End(d) # src
    <3>1. h = History(None(src), e) /\ h \in Histories /\ h.prefix = None(src) /\ h.ext = e
      BY <1>0, <1>1, <2>1, <2>3, NoneOf, HistoryOf
    <3> QED BY <2>1, <2>3, <3>1
  <2> QED BY <2>2, <2>3
<1>4. CASE f = None(src) /\ (d.size = 0 \/ End(d) # src)
  <2>1. f \in Segments /\ End(f) = src
    BY <1>0, <1>4, NoneOf
  <2>2. e = None(src)
    BY <1>4, <2>1, FastClippedIs
  <2>3. h = History(None(src), None(src)) /\ h \in Histories /\ h.prefix = None(src) /\ h.ext = None(src)
    BY <1>0, <1>1, <2>2, NoneOf, HistoryOf
  <2>4. h.ext.size = 0
    BY <1>0, <2>3, NoneOf
  <2>5. (src + n < End(d)) => 0 =< End(d) - (src + n)
    BY <1>0, SMT
  <2> HIDE DEF h
  <2> QED BY <1>0, <1>4, <2>3, <2>4, <2>5, SMT DEF h
<1> QED BY <1>2, <1>3, <1>4

LEMMA FastContinueIs ==
  ASSUME NEW d \in Segments, NEW src \in Nat, NEW n \in Nat
  PROVE  FastContinue(d, src, n) =
           IF End(d) = src /\ d.size > 0 THEN Seg(d.at, d.size + n) ELSE Seg(src, n)
<1> DEFINE h == FastHistory(d, src, n)
<1>1. FastContinue(d, src, n) = Seg(h.prefix.at, h.prefix.size + n)
  BY DEF FastContinue
<1>2. CASE End(d) = src /\ d.size > 0
  <2>1. h.prefix = d
    BY <1>2, FastHistoryIs, HistoryOf, NoneOf
  <2> QED BY <1>1, <1>2, <2>1
<1>3. CASE ~ (End(d) = src /\ d.size > 0)
  <2>1. d.size \in Nat
    BY SegmentParts
  <2>2. h.prefix = None(src)
    BY <1>3, <2>1, FastHistoryIs, SMT
  <2>3. h.prefix.at = src /\ h.prefix.size + n = n
    BY <2>2, NoneOf, SMT
  <2> QED BY <1>1, <1>3, <2>3
<1> QED BY <1>2, <1>3

\* LZ4_streamHC_t keeps one segment more.
LEMMA HCClippedIs ==
  ASSUME NEW h \in Histories, NEW src \in Nat, NEW n \in Nat
  PROVE  LET g == HCClipped(h, src, n)
         IN  /\ g \in Histories /\ g.prefix = h.prefix /\ g.ext.size =< h.ext.size
             /\ g.ext.size > 0 => End(g.ext) = End(h.ext)
             /\ (src + n > h.ext.at /\ src < End(h.ext)) =>
                  g.ext.size = 0 \/ g.ext.size =< End(h.ext) - (src + n)
<1> DEFINE left == End(h.ext) - Lesser(src + n, End(h.ext))
           cut == src + n > h.ext.at /\ src < End(h.ext)
           g == HCClipped(h, src, n)
<1>0. /\ MinDict \in Nat /\ h.ext \in Segments /\ h.prefix \in Segments
      /\ h.ext.at \in Int /\ h.ext.size \in Nat /\ End(h.ext) = h.ext.at + h.ext.size
      /\ h.prefix.at \in Int
  BY StreamingAssumption, SegmentParts, HistoryParts
<1>1. CASE cut
  <2>1. left \in Nat /\ left =< h.ext.size /\ (left = 0 \/ left =< End(h.ext) - (src + n))
    BY <1>0, <1>1, SMT DEF Lesser
  <2> DEFINE e == IF left < MinDict THEN None(h.prefix.at) ELSE LastBytes(End(h.ext), left)
  <2>2. g = [h EXCEPT !.ext = e]
    BY <1>1 DEF HCClipped
  <2> HIDE DEF left
  <2>3. /\ e \in Segments /\ (e.size = 0 \/ e.size = left)
        /\ e.size > 0 => End(e) = End(h.ext)
    <3>1. CASE left < MinDict
      BY <1>0, <3>1, NoneOf, SMT
    <3>2. CASE ~ (left < MinDict)
      <4>1. End(h.ext) \in Int
        BY <1>0, SMT
      <4> QED BY <2>1, <3>2, <4>1, LastBytesOf
    <3> QED BY <3>1, <3>2
  <2> HIDE DEF e
  <2>4. g \in Histories /\ g.prefix = h.prefix /\ g.ext = e
    BY <2>2, <2>3 DEF Histories
  <2> HIDE DEF g
  <2> QED BY <1>0, <2>1, <2>3, <2>4, SMT DEF g
<1>2. CASE ~ cut
  <2>1. g = h
    BY <1>2 DEF HCClipped
  <2> QED BY <1>0, <1>2, <2>1, SMT
<1> QED BY <1>1, <1>2

LEMMA HCHistoryIs ==
  ASSUME NEW h \in Histories, NEW src \in Nat, NEW n \in Nat
  PROVE  LET g == HCHistory(h, src, n)
             p == h.prefix
         IN  /\ g \in Histories
             /\ p.at = NULL => g.prefix = None(src) /\ g.ext.size = 0
             /\ (p.at # NULL /\ End(p) # src) =>
                  /\ g.prefix = None(src) /\ g.ext.size =< p.size
                  /\ g.ext.size > 0 => End(g.ext) = End(p)
                  /\ (src + n > p.at /\ src < End(p)) => g.ext.size = 0 \/ g.ext.size =< End(p) - (src + n)
             /\ (p.at # NULL /\ End(p) = src) =>
                  /\ g.prefix = p /\ g.ext.size =< h.ext.size
                  /\ g.ext.size > 0 => End(g.ext) = End(h.ext)
                  /\ (src + n > h.ext.at /\ src < End(h.ext)) =>
                       g.ext.size = 0 \/ g.ext.size =< End(h.ext) - (src + n)
<1> DEFINE f == HCSwitched(h, src)
           g == HCHistory(h, src, n)
           p == h.prefix
<1>0. src \in Int /\ p \in Segments /\ h.ext \in Segments /\ p.size \in Nat
  BY SegmentParts, HistoryParts, SMT
<1>1. g = HCClipped(f, src, n)
  BY DEF HCHistory
<1> HIDE DEF g
<1>2. CASE p.at = NULL
  <2>1. f \in Histories /\ f.prefix = None(src) /\ f.ext = None(src)
    BY <1>0, <1>2, NoneOf, HistoryOf DEF HCSwitched
  <2>2. f.ext.size = 0
    BY <1>0, <2>1, NoneOf
  <2> HIDE DEF f
  <2>3. g \in Histories /\ g.prefix = None(src) /\ g.ext.size =< 0 /\ g.ext.size \in Nat
    BY <1>1, <2>1, <2>2, HCClippedIs, HistoryParts, SegmentParts
  <2> QED BY <1>2, <2>3, SMT DEF g
<1>3. CASE p.at # NULL /\ End(p) # src
  <2>1. f \in Histories /\ f.prefix = None(src) /\ f.ext = p
    BY <1>0, <1>3, NoneOf, HistoryOf DEF HCSwitched
  <2> HIDE DEF f
  <2>2. /\ g \in Histories /\ g.prefix = f.prefix /\ g.ext.size =< f.ext.size
        /\ g.ext.size > 0 => End(g.ext) = End(f.ext)
        /\ (src + n > f.ext.at /\ src < End(f.ext)) =>
             g.ext.size = 0 \/ g.ext.size =< End(f.ext) - (src + n)
    BY <1>1, <2>1, HCClippedIs
  <2>3. g = HCHistory(h, src, n)
    BY DEF g
  <2> QED BY <1>3, <2>1, <2>2, <2>3
<1>4. CASE p.at # NULL /\ End(p) = src
  <2>1. f = h
    BY <1>4 DEF HCSwitched
  <2> HIDE DEF f
  <2>2. /\ g \in Histories /\ g.prefix = f.prefix /\ g.ext.size =< f.ext.size
        /\ g.ext.size > 0 => End(g.ext) = End(f.ext)
        /\ (src + n > f.ext.at /\ src < End(f.ext)) =>
             g.ext.size = 0 \/ g.ext.size =< End(f.ext) - (src + n)
    BY <1>1, <2>1, HCClippedIs
  <2>3. g = HCHistory(h, src, n)
    BY DEF g
  <2> QED BY <1>4, <2>1, <2>2, <2>3
<1> QED BY <1>2, <1>3, <1>4

LEMMA HCContinueIs ==
  ASSUME NEW h \in Histories, NEW src \in Nat, NEW n \in Nat
  PROVE  LET g == HCHistory(h, src, n)
             c == HCContinue(h, src, n)
         IN  /\ c \in Histories /\ c.ext = g.ext
             /\ c.prefix = IF h.prefix.at # NULL /\ End(h.prefix) = src
                           THEN Seg(h.prefix.at, h.prefix.size + n) ELSE Seg(src, n)
<1> DEFINE g == HCHistory(h, src, n)
           p == h.prefix
<1>0. g \in Histories /\ g.prefix \in Segments /\ g.ext \in Segments
  BY HCHistoryIs, HistoryParts
<1>1. HCContinue(h, src, n) = [g EXCEPT !.prefix.size = @ + n]
  BY DEF HCContinue
<1>2. g.prefix = IF p.at # NULL /\ End(p) = src THEN p ELSE None(src)
  BY HCHistoryIs
<1> HIDE DEF g
<1>3. [g EXCEPT !.prefix.size = @ + n] = History(Seg(g.prefix.at, g.prefix.size + n), g.ext)
  BY <1>0 DEF History, Seg, Histories, Segments
<1>4. Seg(g.prefix.at, g.prefix.size + n) \in Segments
  <2>1. g.prefix.at \in Int /\ g.prefix.size + n \in Nat
    BY <1>0, SegmentParts, SMT
  <2> QED BY <2>1, SegOf
<1>5. src \in Int /\ None(src).at = src /\ None(src).size + n = n
  <2>1. src \in Int
    BY SMT
  <2> QED BY <2>1, NoneOf, SMT
<1>6. /\ HCContinue(h, src, n) \in Histories /\ HCContinue(h, src, n).ext = g.ext
      /\ HCContinue(h, src, n).prefix = Seg(g.prefix.at, g.prefix.size + n)
  <2>1. HCContinue(h, src, n) = History(Seg(g.prefix.at, g.prefix.size + n), g.ext)
    BY <1>1, <1>3
  <2> QED BY <1>0, <1>4, <2>1, HistoryOf
<1> QED BY <1>2, <1>5, <1>6 DEF g

\* LZ4_streamDecode_t.
LEMMA DecodeHistoryIs ==
  ASSUME NEW h \in Histories, NEW dest \in Nat
  PROVE  LET g == DecodeHistory(h, dest)
         IN  /\ g \in Histories
             /\ h.prefix.size = 0 => g.prefix.size = 0 /\ g.ext.size = 0 /\ End(g.prefix) = dest
             /\ (h.prefix.size > 0 /\ End(h.prefix) = dest) => g = h
             /\ (h.prefix.size > 0 /\ End(h.prefix) # dest) => g = History(None(dest), h.prefix)
             /\ End(g.prefix) = dest
<1>0. dest \in Int /\ h.prefix \in Segments /\ h.prefix.size \in Nat /\ NULL \in Int
  BY HistoryParts, SegmentParts, SMT DEF NULL
<1>1. None(dest) \in Segments /\ End(None(dest)) = dest /\ None(dest).size = 0
  BY <1>0, NoneOf
<1>2. None(NULL) \in Segments /\ None(NULL).size = 0
  BY <1>0, NoneOf
<1>3. h.prefix.size > 0 <=> h.prefix.size # 0
  BY <1>0, SMT
<1> QED BY <1>0, <1>1, <1>2, <1>3, HistoryOf DEF DecodeHistory

LEMMA DecodeContinueIs ==
  ASSUME NEW h \in Histories, NEW dest \in Nat, NEW n \in Nat
  PROVE  LET g == DecodeHistory(h, dest)
             c == DecodeContinue(h, dest, n)
         IN  /\ c \in Histories
             /\ n > 0 => c.prefix = Seg(g.prefix.at, g.prefix.size + n) /\ c.ext = g.ext
             /\ n = 0 => c.prefix = h.prefix /\ (h.prefix.size > 0 => c.ext = g.ext)
<1> DEFINE g == DecodeHistory(h, dest)
           c == DecodeContinue(h, dest, n)
<1>0. g \in Histories /\ g.prefix \in Segments /\ g.ext \in Segments /\ h.prefix \in Segments
  BY DecodeHistoryIs, HistoryParts
<1>1. c = IF n > 0 THEN [g EXCEPT !.prefix.size = @ + n]
          ELSE IF h.prefix.size = 0 THEN h ELSE [h EXCEPT !.ext = g.ext]
  BY DEF DecodeContinue
<1> HIDE DEF g
<1>2. CASE n > 0
  <2>1. [g EXCEPT !.prefix.size = @ + n] = History(Seg(g.prefix.at, g.prefix.size + n), g.ext)
    BY <1>0 DEF History, Seg, Histories, Segments
  <2>2. g.prefix.at \in Int /\ g.prefix.size + n \in Nat
    BY <1>0, SegmentParts, SMT
  <2>3. Seg(g.prefix.at, g.prefix.size + n) \in Segments
    BY <2>2, SegOf
  <2>4. c = History(Seg(g.prefix.at, g.prefix.size + n), g.ext) /\ n # 0
    BY <1>1, <1>2, <2>1, SMT
  <2>5. /\ c \in Histories /\ c.prefix = Seg(g.prefix.at, g.prefix.size + n) /\ c.ext = g.ext
    BY <1>0, <2>3, <2>4, HistoryOf
  <2> HIDE DEF c
  <2> QED BY <1>2, <2>4, <2>5 DEF c, g
<1>3. CASE n = 0
  <2>1. c = IF h.prefix.size = 0 THEN h ELSE [h EXCEPT !.ext = g.ext]
    BY <1>1, <1>3, SMT
  <2>2. h.prefix.size > 0 => h.prefix.size # 0
    BY SMT
  <2>3. c \in Histories /\ c.prefix = h.prefix /\ (h.prefix.size > 0 => c.ext = g.ext)
    BY <1>0, <2>1, <2>2 DEF Histories
  <2>4. ~ (n > 0)
    BY <1>3, SMT
  <2> HIDE DEF c
  <2> QED BY <1>3, <2>3, <2>4 DEF c, g
<1>4. n > 0 \/ n = 0
  BY SMT
<1> QED BY <1>2, <1>3, <1>4

-----------------------------------------------------------------------------
(* With pages of one size, the decoder reaches as far as the encoder.        *)

\* What the encoder will take for the bytes before a block at address at, the
\* decoder has: the segments end in the same place and the decoder's are longer.
Covered(mode, e, d, at) ==
  /\ d \in Histories
  /\ mode = "fast" =>
       /\ e \in Segments
       /\ e.size > 0 => e.size =< d.prefix.size /\ End(e) = End(d.prefix)
  /\ mode = "hc" =>
       /\ e \in Histories
       /\ e.prefix.size = 0 => e.prefix.at = NULL \/ e.prefix.at # at
       /\ e.prefix.size > 0 =>
            /\ e.prefix.at # NULL /\ e.prefix.size =< d.prefix.size /\ End(e.prefix) = End(d.prefix)
            /\ e.prefix.size + e.ext.size =< d.prefix.size + d.ext.size

LEMMA ReachIs ==
  ASSUME NEW h \in Histories
  PROVE  /\ Reach(h) \in Int /\ Reach(h) =< h.prefix.size + h.ext.size /\ Reach(h) =< KB64 - 1
         /\ DecoderReach(h) = h.prefix.size + h.ext.size /\ DecoderReach(h) \in Nat
<1>1. h.prefix.size \in Nat /\ h.ext.size \in Nat
  BY HistoryParts, SegmentParts
<1> QED BY <1>1, StreamingAssumption, SMT DEF Reach, Lesser, DecoderReach

\* What the decoder will have in reach, in terms of what it has now.
LEMMA DecoderReachIs ==
  ASSUME NEW d \in Histories, NEW dest \in Nat
  PROVE  LET r == DecoderReach(DecodeHistory(d, dest))
         IN  /\ r \in Nat /\ d.prefix.size =< r
             /\ End(d.prefix) = dest /\ d.prefix.size > 0 => r = d.prefix.size + d.ext.size
             /\ End(d.prefix) # dest => r = d.prefix.size
<1> DEFINE g == DecodeHistory(d, dest)
<1>0. g \in Histories /\ d.prefix \in Segments /\ d.prefix.size \in Nat /\ d.ext.size \in Nat
  BY DecodeHistoryIs, HistoryParts, SegmentParts
<1>1. DecoderReach(g) = g.prefix.size + g.ext.size /\ DecoderReach(g) \in Nat
  BY <1>0, ReachIs
<1>2. CASE d.prefix.size = 0
  <2>1. g.prefix.size = 0 /\ g.ext.size = 0
    BY <1>2, DecodeHistoryIs
  <2> HIDE DEF g
  <2> QED BY <1>0, <1>1, <1>2, <2>1, SMT DEF g
<1>3. CASE d.prefix.size > 0 /\ End(d.prefix) = dest
  <2>1. g = d
    BY <1>3, DecodeHistoryIs
  <2> HIDE DEF g
  <2> QED BY <1>0, <1>1, <1>3, <2>1, SMT DEF g
<1>4. CASE d.prefix.size > 0 /\ End(d.prefix) # dest
  <2>1. None(dest) \in Segments /\ None(dest).size = 0
    BY NoneOf, SMT
  <2>2. g = History(None(dest), d.prefix)
    BY <1>4, DecodeHistoryIs
  <2>3. g.prefix = None(dest) /\ g.ext = d.prefix
    BY <1>0, <2>1, <2>2, HistoryOf
  <2> HIDE DEF g
  <2> QED BY <1>0, <1>1, <1>4, <2>1, <2>3, SMT DEF g
<1> QED BY <1>0, <1>2, <1>3, <1>4, SMT

LEMMA CoveredReach ==
  ASSUME conf.mode \in {"fast", "hc"}, NEW d, NEW at \in Nat, NEW n \in Nat,
         Covered(conf.mode, enc.hist, d, at)
  PROVE  /\ EncoderHistory(at, n) \in Histories
         /\ Reach(EncoderHistory(at, n)) =< DecoderReach(DecodeHistory(d, at))
<1> DEFINE e == enc.hist
           h == EncoderHistory(at, n)
           r == DecoderReach(DecodeHistory(d, at))
<1>0. /\ d \in Histories /\ d.prefix.size \in Nat /\ d.ext.size \in Nat
      /\ r \in Nat /\ d.prefix.size =< r
      /\ End(d.prefix) = at /\ d.prefix.size > 0 => r = d.prefix.size + d.ext.size
  BY DecoderReachIs, HistoryParts, SegmentParts DEF Covered
<1>1. CASE conf.mode = "fast"
  <2>1. e \in Segments /\ e.size \in Nat /\ (e.size > 0 => e.size =< d.prefix.size /\ End(e) = End(d.prefix))
    BY <1>1, SegmentParts DEF Covered
  <2>2. h = FastHistory(e, at, n) /\ h \in Histories
    BY <1>1, <2>1, FastHistoryIs DEF EncoderHistory
  <2> HIDE DEF h, r
  <2>3. Reach(h) \in Int /\ Reach(h) =< h.prefix.size + h.ext.size /\ h.ext.size \in Nat
    BY <2>2, ReachIs, HistoryParts, SegmentParts
  <2>4. CASE End(e) = at /\ e.size > 0
    <3>1. h = History(e, None(at)) /\ at \in Int
      BY <2>1, <2>2, <2>4, FastHistoryIs, SMT
    <3>2. h.prefix = e /\ h.ext = None(at) /\ None(at).size = 0
      BY <2>1, <3>1, HistoryOf, NoneOf
    <3> QED BY <1>0, <2>1, <2>2, <2>3, <2>4, <3>2, SMT DEF h, r
  <2>5. CASE ~ (End(e) = at /\ e.size > 0)
    <3>1. e.size = 0 \/ End(e) # at
      BY <2>1, <2>5, SMT
    <3>2. h.prefix = None(at) /\ h.ext.size =< e.size
      BY <2>1, <2>2, <3>1, FastHistoryIs
    <3>3. h.prefix.size = 0
      BY <3>2, NoneOf, SMT
    <3> QED BY <1>0, <2>1, <2>2, <2>3, <3>2, <3>3, SMT DEF h, r
  <2> QED BY <2>4, <2>5
<1>2. CASE conf.mode = "hc"
  <2>0. conf.mode # "fast"
    BY <1>2
  <2>1. /\ e \in Histories /\ e.prefix.size \in Nat /\ e.ext.size \in Nat
        /\ e.prefix.size = 0 => e.prefix.at = NULL \/ e.prefix.at # at
        /\ e.prefix.size > 0 =>
            /\ e.prefix.at # NULL /\ e.prefix.size =< d.prefix.size /\ End(e.prefix) = End(d.prefix)
            /\ e.prefix.size + e.ext.size =< d.prefix.size + d.ext.size
    BY <1>2, HistoryParts, SegmentParts DEF Covered
  <2>2. h = HCHistory(e, at, n) /\ h \in Histories
    BY <1>2, <2>1, HCHistoryIs DEF EncoderHistory
  <2> HIDE DEF h, r
  <2>3. Reach(h) \in Int /\ Reach(h) =< h.prefix.size + h.ext.size /\ h.ext.size \in Nat
    BY <2>2, ReachIs, HistoryParts, SegmentParts
  <2>4. None(at).size = 0
    BY NoneOf, SMT
  <2>5. CASE e.prefix.at = NULL
    <3>1. h.prefix = None(at) /\ h.ext.size = 0
      BY <2>1, <2>2, <2>5, HCHistoryIs, ZenonT(60)
    <3> QED BY <1>0, <2>2, <2>3, <2>4, <3>1, SMT DEF h, r
  <2>6. CASE e.prefix.at # NULL /\ End(e.prefix) # at
    <3>1. h.prefix = None(at) /\ h.ext.size =< e.prefix.size
      BY <2>1, <2>2, <2>6, HCHistoryIs, ZenonT(60)
    <3> QED BY <1>0, <2>1, <2>2, <2>3, <2>4, <3>1, SMT DEF h, r
  <2>7. CASE e.prefix.at # NULL /\ End(e.prefix) = at
    <3>1. h.prefix = e.prefix /\ h.ext.size =< e.ext.size
      BY <2>1, <2>2, <2>7, HCHistoryIs, ZenonT(60)
    <3>2. End(e.prefix) = e.prefix.at + e.prefix.size /\ e.prefix.at \in Int
      BY <2>1, HistoryParts, SegmentParts
    <3>3. e.prefix.size > 0
      BY <2>1, <2>7, <3>2, SMT
    <3> QED BY <1>0, <2>1, <2>2, <2>3, <2>7, <3>1, <3>3, SMT DEF h, r
  <2> QED BY <2>5, <2>6, <2>7
<1> QED BY <1>1, <1>2

\* What becomes of the decoder's segments, with the numbers apart.
LEMMA DecoderMoves ==
  ASSUME NEW d \in Histories, NEW at \in Nat, NEW n \in Nat
  PROVE  LET c == DecodeContinue(d, at, n)
         IN  /\ n > 0 /\ d.prefix.size > 0 /\ End(d.prefix) = at =>
                  c.prefix.size = d.prefix.size + n /\ End(c.prefix) = at + n /\ c.ext = d.ext
             /\ n > 0 /\ ~ (d.prefix.size > 0 /\ End(d.prefix) = at) =>
                  /\ c.prefix.size = n /\ End(c.prefix) = at + n
                  /\ c.ext.size = d.prefix.size /\ (d.prefix.size > 0 => c.ext = d.prefix)
             /\ n = 0 => c.prefix = d.prefix
             /\ n = 0 /\ d.prefix.size > 0 /\ End(d.prefix) = at => c.ext = d.ext
             /\ c \in Histories /\ c.prefix.size \in Nat /\ c.ext.size \in Nat
<1> DEFINE g == DecodeHistory(d, at)
           c == DecodeContinue(d, at, n)
<1>1. /\ g \in Histories /\ End(g.prefix) = at
      /\ d.prefix.size = 0 => g.prefix.size = 0 /\ g.ext.size = 0
      /\ (d.prefix.size > 0 /\ End(d.prefix) = at) => g = d
      /\ (d.prefix.size > 0 /\ End(d.prefix) # at) => g = History(None(at), d.prefix)
  BY DecodeHistoryIs
<1>2. /\ c \in Histories
      /\ n > 0 => c.prefix = Seg(g.prefix.at, g.prefix.size + n) /\ c.ext = g.ext
      /\ n = 0 => c.prefix = d.prefix /\ (d.prefix.size > 0 => c.ext = g.ext)
  BY DecodeContinueIs
<1> HIDE DEF c, g
<1>3. d.prefix \in Segments /\ d.prefix.size \in Nat
  BY HistoryParts, SegmentParts
<1>4. g.prefix \in Segments /\ g.prefix.size \in Nat /\ g.prefix.at \in Int /\ End(g.prefix) = g.prefix.at + g.prefix.size
  BY <1>1, HistoryParts, SegmentParts
<1>5. c.prefix.size \in Nat /\ c.ext.size \in Nat
  BY <1>2, HistoryParts, SegmentParts
<1>6. n > 0 => c.prefix.size = g.prefix.size + n /\ End(c.prefix) = at + n
  <2>1. g.prefix.size + n \in Nat
    BY <1>4, SMT
  <2> DEFINE t == Seg(g.prefix.at, g.prefix.size + n)
  <2>2. t.size = g.prefix.size + n /\ End(t) = g.prefix.at + (g.prefix.size + n)
    BY <1>4, <2>1, SegOf
  <2>4. n > 0 => c.prefix = t
    BY <1>2
  <2>3. g.prefix.at + (g.prefix.size + n) = at + n
    BY <1>1, <1>4, SMT
  <2> HIDE DEF t
  <2> QED BY <2>2, <2>3, <2>4
<1>7. ~ (d.prefix.size > 0 /\ End(d.prefix) = at) =>
        /\ g.prefix.size = 0 /\ g.ext.size = d.prefix.size
        /\ d.prefix.size > 0 => g.ext = d.prefix
  <2>1. None(at) \in Segments /\ None(at).size = 0
    BY NoneOf, SMT
  <2>2. (d.prefix.size > 0 /\ End(d.prefix) # at) => g.prefix.size = 0 /\ g.ext = d.prefix
    BY <1>1, <1>3, <2>1, HistoryOf
  <2>3. d.prefix.size = 0 \/ d.prefix.size > 0
    BY <1>3, SMT
  <2>4. d.prefix.size = 0 => ~ (d.prefix.size > 0)
    BY <1>3, SMT
  <2> QED BY <1>1, <2>2, <2>3, <2>4
<1>8. n > 0 /\ d.prefix.size > 0 /\ End(d.prefix) = at =>
        c.prefix.size = d.prefix.size + n /\ End(c.prefix) = at + n /\ c.ext = d.ext
  BY <1>1, <1>2, <1>6
<1>9. n > 0 /\ ~ (d.prefix.size > 0 /\ End(d.prefix) = at) =>
        /\ c.prefix.size = n /\ End(c.prefix) = at + n
        /\ c.ext.size = d.prefix.size /\ (d.prefix.size > 0 => c.ext = d.prefix)
  <2>1. 0 + n = n
    BY SMT
  <2> QED BY <1>2, <1>6, <1>7, <2>1
<1>10. n = 0 => c.prefix = d.prefix
  BY <1>2
<1>11. n = 0 /\ d.prefix.size > 0 /\ End(d.prefix) = at => c.ext = d.ext
  BY <1>1, <1>2
<1> QED BY <1>2, <1>5, <1>8, <1>9, <1>10, <1>11 DEF c

LEMMA FastCoveredNext ==
  ASSUME NEW e \in Segments, NEW d \in Histories, NEW at \in Nat, NEW n \in Nat,
         e.size > 0 => e.size =< d.prefix.size /\ End(e) = End(d.prefix)
  PROVE  LET f == FastContinue(e, at, n)
             c == DecodeContinue(d, at, n)
         IN  f \in Segments /\ (f.size > 0 => f.size =< c.prefix.size /\ End(f) = End(c.prefix))
<1> DEFINE f == FastContinue(e, at, n)
           c == DecodeContinue(d, at, n)
<1>1. f = IF End(e) = at /\ e.size > 0 THEN Seg(e.at, e.size + n) ELSE Seg(at, n)
  BY FastContinueIs
<1>2. e.size \in Nat /\ e.at \in Int /\ End(e) = e.at + e.size
  BY SegmentParts
<1>3. d.prefix.size \in Nat
  BY HistoryParts, SegmentParts
<1>4. /\ n > 0 /\ d.prefix.size > 0 /\ End(d.prefix) = at =>
           c.prefix.size = d.prefix.size + n /\ End(c.prefix) = at + n
      /\ n > 0 /\ ~ (d.prefix.size > 0 /\ End(d.prefix) = at) =>
           c.prefix.size = n /\ End(c.prefix) = at + n
      /\ n = 0 => c.prefix = d.prefix
  BY DecoderMoves, ZenonT(60)
<1> HIDE DEF f, c
<1>5. CASE End(e) = at /\ e.size > 0
  <2>1. e.size + n \in Nat /\ e.at + (e.size + n) = at + n
    BY <1>2, <1>5, SMT
  <2>2. f \in Segments /\ f.size = e.size + n /\ End(f) = at + n
    BY <1>1, <1>2, <1>5, <2>1, SegOf
  <2>3. e.size =< d.prefix.size /\ End(d.prefix) = at
    BY <1>5
  <2>4. d.prefix.size > 0 /\ e.size + n =< d.prefix.size + n
    BY <1>2, <1>3, <1>5, <2>3, SMT
  <2>5. CASE n > 0
    <3>1. c.prefix.size = d.prefix.size + n /\ End(c.prefix) = at + n
      BY <1>4, <2>3, <2>4, <2>5
    <3> QED BY <2>2, <2>4, <3>1 DEF f, c
  <2>6. CASE n = 0
    <3>1. e.size + n =< d.prefix.size /\ at + n = at
      BY <1>2, <1>3, <2>3, <2>6, SMT
    <3>2. c.prefix = d.prefix
      BY <1>4, <2>6
    <3> QED BY <2>2, <2>3, <3>1, <3>2 DEF f, c
  <2>7. n > 0 \/ n = 0
    BY SMT
  <2> QED BY <2>5, <2>6, <2>7 DEF f, c
<1>6. CASE ~ (End(e) = at /\ e.size > 0)
  <2>1. at \in Int
    BY SMT
  <2>2. f \in Segments /\ f.size = n /\ End(f) = at + n
    BY <1>1, <1>6, <2>1, SegOf
  <2>3. n =< n /\ n =< d.prefix.size + n
    BY <1>3, SMT
  <2>4. n > 0 => n =< c.prefix.size /\ End(c.prefix) = at + n
    BY <1>4, <2>3
  <2> QED BY <2>2, <2>4 DEF f, c
<1> QED BY <1>5, <1>6

\* One side of the HC history at a time: its prefix and what is beyond.
LEMMA HCMoves ==
  ASSUME NEW e \in Histories, NEW at \in Nat, NEW n \in Nat
  PROVE  LET f == HCContinue(e, at, n)
             contiguous == e.prefix.at # NULL /\ End(e.prefix) = at
         IN  /\ f \in Histories /\ f.prefix.size \in Nat /\ f.ext.size \in Nat
             /\ contiguous => /\ f.prefix = Seg(e.prefix.at, e.prefix.size + n)
                              /\ f.prefix.size = e.prefix.size + n /\ f.prefix.at = e.prefix.at
                              /\ End(f.prefix) = at + n /\ f.ext.size =< e.ext.size
             /\ ~ contiguous => /\ f.prefix = Seg(at, n) /\ f.prefix.size = n /\ f.prefix.at = at
                                /\ End(f.prefix) = at + n
                                /\ f.ext.size =< e.prefix.size
                                /\ e.prefix.at = NULL => f.ext.size = 0
<1> DEFINE f == HCContinue(e, at, n)
           g == HCHistory(e, at, n)
           p == e.prefix
           contiguous == p.at # NULL /\ End(p) = at
<1>1. f \in Histories /\ f.ext = g.ext /\ f.prefix = IF contiguous THEN Seg(p.at, p.size + n) ELSE Seg(at, n)
  BY HCContinueIs
<1>2. /\ p.at = NULL => g.ext.size = 0
      /\ (p.at # NULL /\ End(p) # at) => g.ext.size =< p.size
      /\ (p.at # NULL /\ End(p) = at) => g.ext.size =< e.ext.size
  BY HCHistoryIs
<1> HIDE DEF f, g
<1>3. p.size \in Nat /\ p.at \in Int /\ End(p) = p.at + p.size
  BY HistoryParts, SegmentParts
<1>4. f.prefix.size \in Nat /\ f.ext.size \in Nat
  BY <1>1, HistoryParts, SegmentParts
<1>5. CASE contiguous
  <2>1. p.size + n \in Nat /\ p.at + (p.size + n) = at + n
    BY <1>3, <1>5, SMT
  <2>2. f.prefix = Seg(p.at, p.size + n)
    BY <1>1, <1>5
  <2>3. f.prefix.size = p.size + n /\ f.prefix.at = p.at /\ End(f.prefix) = at + n
    <3>1. LET s == Seg(p.at, p.size + n)
          IN  s.size = p.size + n /\ s.at = p.at /\ End(s) = p.at + (p.size + n)
      BY <1>3, <2>1, SegOf
    <3> QED BY <2>1, <2>2, <3>1
  <2> QED BY <1>1, <1>2, <1>4, <1>5, <2>2, <2>3 DEF f
<1>6. CASE ~ contiguous
  <2>1. at \in Int /\ 0 =< p.size
    BY <1>3, SMT
  <2>2. f.prefix.size = n /\ f.prefix.at = at /\ End(f.prefix) = at + n
    BY <1>1, <1>6, <2>1, SegOf
  <2> QED BY <1>1, <1>2, <1>4, <1>6, <2>1, <2>2 DEF f
<1> QED BY <1>5, <1>6

LEMMA HCCoveredNext ==
  ASSUME NEW e \in Histories, NEW d \in Histories, NEW at \in Nat, NEW n \in Nat, NEW next \in Nat, next # at,
         e.prefix.size = 0 => e.prefix.at = NULL \/ e.prefix.at # at,
         e.prefix.size > 0 =>
            /\ e.prefix.at # NULL /\ e.prefix.size =< d.prefix.size /\ End(e.prefix) = End(d.prefix)
            /\ e.prefix.size + e.ext.size =< d.prefix.size + d.ext.size
  PROVE  LET f == HCContinue(e, at, n)
             c == DecodeContinue(d, at, n)
         IN  /\ f \in Histories
             /\ f.prefix.size = 0 => f.prefix.at = NULL \/ f.prefix.at # next
             /\ f.prefix.size > 0 =>
                  /\ f.prefix.at # NULL /\ f.prefix.size =< c.prefix.size /\ End(f.prefix) = End(c.prefix)
                  /\ f.prefix.size + f.ext.size =< c.prefix.size + c.ext.size
<1> DEFINE f == HCContinue(e, at, n)
           c == DecodeContinue(d, at, n)
           p == e.prefix
           q == d.prefix
           contiguous == p.at # NULL /\ End(p) = at
<1>1. /\ f \in Histories /\ f.prefix.size \in Nat /\ f.ext.size \in Nat
      /\ contiguous => /\ f.prefix = Seg(p.at, p.size + n)
                       /\ f.prefix.size = p.size + n /\ f.prefix.at = p.at
                       /\ End(f.prefix) = at + n /\ f.ext.size =< e.ext.size
      /\ ~ contiguous => /\ f.prefix = Seg(at, n) /\ f.prefix.size = n /\ f.prefix.at = at
                         /\ End(f.prefix) = at + n
                         /\ f.ext.size =< p.size
                         /\ p.at = NULL => f.ext.size = 0
  BY HCMoves, ZenonT(60)
<1>2. /\ n > 0 /\ q.size > 0 /\ End(q) = at =>
           c.prefix.size = q.size + n /\ End(c.prefix) = at + n /\ c.ext = d.ext
      /\ n > 0 /\ ~ (q.size > 0 /\ End(q) = at) =>
           c.prefix.size = n /\ End(c.prefix) = at + n /\ c.ext.size = q.size
      /\ n = 0 => c.prefix = q
      /\ n = 0 /\ q.size > 0 /\ End(q) = at => c.ext = d.ext
  BY DecoderMoves, ZenonT(60)
<1>3. c.prefix.size \in Nat /\ c.ext.size \in Nat
  BY DecoderMoves, ZenonT(60)
<1> HIDE DEF f, c
<1>4. p.size \in Nat /\ p.at \in Int /\ End(p) = p.at + p.size /\ e.ext.size \in Nat
  BY HistoryParts, SegmentParts
<1>5. q.size \in Nat /\ d.ext.size \in Nat
  BY HistoryParts, SegmentParts
<1>6. n > 0 \/ n = 0
  BY SMT
<1>7. CASE contiguous
  <2>1. p.size > 0
    <3>1. p.size = 0 => FALSE
      <4>1. p.size = 0 => p.at = at
        BY <1>4, <1>7, SMT
      <4> QED BY <1>7, <4>1
    <3> QED BY <1>4, <3>1, SMT
  <2>2. p.size =< q.size /\ End(q) = at /\ p.size + e.ext.size =< q.size + d.ext.size
    BY <1>7, <2>1
  <2>3. q.size > 0
    BY <1>4, <1>5, <2>1, <2>2, SMT
  <2>4. /\ c.prefix.size = q.size + n /\ End(c.prefix) = at + n /\ c.ext = d.ext
    <3>1. CASE n > 0
      BY <1>2, <2>2, <2>3, <3>1
    <3>2. CASE n = 0
      <4>1. q.size + n = q.size /\ at + n = at
        BY <1>5, <3>2, SMT
      <4> QED BY <1>2, <2>2, <2>3, <3>2, <4>1
    <3> QED BY <1>6, <3>1, <3>2
  <2>5. f.prefix.size = p.size + n /\ f.prefix.at = p.at /\ End(f.prefix) = at + n /\ f.ext.size =< e.ext.size
    BY <1>1, <1>7
  <2>6. f.ext.size \in Nat
    BY <1>1
  <2>7. p.size + n =< q.size + n /\ (p.size + n) + f.ext.size =< (q.size + n) + d.ext.size /\ p.size + n # 0
    BY <1>4, <1>5, <2>1, <2>2, <2>5, <2>6, SMT
  <2> QED BY <1>1, <1>7, <2>4, <2>5, <2>7 DEF f, c
<1>8. CASE ~ contiguous
  <2>1. f.prefix.size = n /\ f.prefix.at = at /\ End(f.prefix) = at + n /\ f.ext.size =< p.size
        /\ (p.at = NULL => f.ext.size = 0) /\ f.ext.size \in Nat
    BY <1>1, <1>8
  <2>2. at # NULL
    BY SMT DEF NULL
  <2>3. CASE n = 0
    <3>1. ~ (n > 0)
      BY <2>3, SMT
    <3> QED BY <1>1, <2>1, <2>3, <3>1 DEF f, c
  <2>4. CASE n > 0
    <3>1. n # 0
      BY <2>4, SMT
    <3>2. c.prefix.size \in Nat /\ n =< c.prefix.size /\ End(c.prefix) = at + n
      <4>1. n =< n /\ n =< q.size + n
        BY <1>5, SMT
      <4> QED BY <1>2, <1>3, <2>4, <4>1
    <3>3. n + f.ext.size =< c.prefix.size + c.ext.size
      <4>1. CASE f.ext.size = 0
        BY <1>3, <3>2, <4>1, SMT
      <4>2. CASE f.ext.size > 0
        <5>1. p.size > 0
          BY <1>4, <2>1, <4>2, SMT
        <5>2. p.size =< q.size /\ End(q) = End(p) /\ p.at # NULL
          BY <5>1
        <5>3. End(q) # at
          BY <1>8, <5>2
        <5>4. c.prefix.size = n /\ c.ext.size = q.size
          BY <1>2, <2>4, <5>3
        <5> QED BY <1>4, <1>5, <2>1, <5>2, <5>4, SMT
      <4>3. f.ext.size = 0 \/ f.ext.size > 0
        BY <2>1, SMT
      <4> QED BY <4>1, <4>2, <4>3
    <3> QED BY <1>1, <2>1, <2>2, <3>1, <3>2, <3>3 DEF f, c
  <2> QED BY <1>6, <2>3, <2>4
<1> QED BY <1>7, <1>8

\* Once both have been through the block, of a page, the same holds at the other.
LEMMA CoveredNext ==
  ASSUME conf.mode \in {"fast", "hc"}, NEW d, NEW at \in Nat, NEW n \in Nat, NEW next \in Nat,
         next # at, Covered(conf.mode, enc.hist, d, at)
  PROVE  Covered(conf.mode, EncoderContinue(at, n), DecodeContinue(d, at, n), next)
<1>0. d \in Histories /\ DecodeContinue(d, at, n) \in Histories
  BY DecodeContinueIs DEF Covered
<1>1. CASE conf.mode = "fast"
  <2>1. EncoderContinue(at, n) = FastContinue(enc.hist, at, n)
    BY <1>1 DEF EncoderContinue
  <2> QED BY <1>0, <1>1, <2>1, FastCoveredNext DEF Covered
<1>2. CASE conf.mode = "hc"
  <2>1. EncoderContinue(at, n) = HCContinue(enc.hist, at, n)
    BY <1>2 DEF EncoderContinue
  <2>2. /\ enc.hist \in Histories
        /\ enc.hist.prefix.size = 0 => enc.hist.prefix.at = NULL \/ enc.hist.prefix.at # at
        /\ enc.hist.prefix.size > 0 =>
             /\ enc.hist.prefix.at # NULL /\ enc.hist.prefix.size =< d.prefix.size
             /\ End(enc.hist.prefix) = End(d.prefix)
             /\ enc.hist.prefix.size + enc.hist.ext.size =< d.prefix.size + d.ext.size
    BY <1>2 DEF Covered
  <2> DEFINE f == HCContinue(enc.hist, at, n)
             c == DecodeContinue(d, at, n)
  <2>3. /\ f \in Histories
        /\ f.prefix.size = 0 => f.prefix.at = NULL \/ f.prefix.at # next
        /\ f.prefix.size > 0 =>
             /\ f.prefix.at # NULL /\ f.prefix.size =< c.prefix.size /\ End(f.prefix) = End(c.prefix)
             /\ f.prefix.size + f.ext.size =< c.prefix.size + c.ext.size
    BY <1>0, <2>2, HCCoveredNext
  <2>4. conf.mode # "fast"
    BY <1>2
  <2> HIDE DEF f, c
  <2>5. Covered(conf.mode, f, c, next)
    BY <1>0, <2>3, <2>4 DEF Covered, c
  <2> QED BY <2>1, <2>5 DEF f, c
<1> QED BY <1>1, <1>2

\* No block is refused or fails; what stands behind that while one is on its way.
InReach ==
  (Kept /\ conf.decPage = PageSize) =>
    /\ Uncut /\ dec.hist \in Histories
    /\ wire = NoBlock => Covered(conf.mode, enc.hist, dec.hist, enc.page * PageSize)
    /\ wire # NoBlock =>
         LET dest == dec.page * PageSize
         IN  /\ DOMAIN wire.seen \subseteq Int
             /\ \A k \in DOMAIN wire.seen : k =< DecoderReach(DecodeHistory(dec.hist, dest))
             /\ Covered(conf.mode, enc.hist, DecodeContinue(dec.hist, dest, wire.n), enc.page * PageSize)

LEMMA PageAt ==
  \A page \in {0, 1} : /\ page * PageSize \in Nat
                       /\ OtherPage(page) * PageSize \in Nat
                       /\ OtherPage(page) * PageSize # page * PageSize
                       /\ page = 0 => page * PageSize = 0 /\ OtherPage(page) * PageSize = PageSize
                       /\ page = 1 => page * PageSize = PageSize /\ OtherPage(page) * PageSize = 0
<1>1. PageSize \in Nat \ {0}
  BY PageIsNat
<1>2. 0 * PageSize = 0 /\ 1 * PageSize = PageSize /\ 0 # PageSize /\ 0 \in Nat
  BY <1>1, SMT
<1>3. OtherPage(0) = 1 /\ OtherPage(1) = 0
  BY SMT DEF OtherPage
<1> QED BY <1>1, <1>2, <1>3

\* A block fits the page it came from.
LEMMA BlocksFitPage ==
  \A n \in 0 .. PageSize : \A csize \in {1, largest_block(n)} : get_input_bound(csize) \in 1 .. PageSize
<1> SUFFICES ASSUME NEW n \in 0 .. PageSize, NEW csize \in {1, largest_block(n)}
             PROVE  get_input_bound(csize) \in 1 .. PageSize
  OBVIOUS
<1>0. PageSize \in Nat \ {0} /\ PageSize \in 0 .. LZ4_MAX_INPUT_SIZE /\ LZ4_MAX_INPUT_SIZE \in Nat
  BY PageIsNat, MaxInputSize
<1>1. \A m \in 0 .. PageSize : get_input_bound(largest_block(m)) \in 1 .. PageSize
  <2>1. SUFFICES ASSUME NEW m \in 0 .. PageSize PROVE get_input_bound(largest_block(m)) \in 1 .. PageSize
    OBVIOUS
  <2>2. m \in 0 .. LZ4_MAX_INPUT_SIZE
    BY <1>0, SMT
  <2>3. get_input_bound(largest_block(m)) \in 1 .. (IF m = 0 THEN 1 ELSE m)
    BY <2>2, OwnBlocksFit DEF FitsItsPage
  <2> QED BY <1>0, <2>3, SMT
<1>2. largest_block(0) = 1
  BY SMT DEF largest_block
<1>3. 0 \in 0 .. PageSize
  BY <1>0, SMT
<1> QED BY <1>1, <1>2, <1>3

LEMMA InReachInit == PairInit => InReach
<1> SUFFICES ASSUME PairInit, Kept, conf.decPage = PageSize PROVE InReach
  BY DEF InReach
<1> DEFINE D == DictAt(PageSize)
<1>1. /\ conf \in Streams /\ wire = NoBlock /\ got = "nothing" /\ enc.page = 0
      /\ enc.hist = EncoderNew(conf.mode, conf.dict) /\ dec.hist = DecodeSet(D, conf.dict)
  BY DEF PairInit, DecPageSize
<1>2. D \in Nat /\ D > 0
  BY PageIsNat, SMT DEF DictAt
<1> HIDE DEF D
<1>3. conf.mode \in {"fast", "hc"} /\ conf.dict \in Nat
  BY <1>1, ConfIs
<1>4. NULL \in Int /\ NULL < 0 /\ None(NULL) \in Segments /\ None(NULL).size = 0 /\ None(NULL).at = NULL
  <2>1. NULL \in Int /\ NULL < 0
    BY SMT DEF NULL
  <2> QED BY <2>1, NoneOf
<1>5. /\ dec.hist \in Histories /\ dec.hist.prefix.size = conf.dict /\ End(dec.hist.prefix) = D + conf.dict
      /\ dec.hist.ext.size = 0
  <2>1. D \in Int
    BY <1>2, SMT
  <2>2. LET s == Seg(D, conf.dict) IN s \in Segments /\ s.size = conf.dict /\ End(s) = D + conf.dict
    BY <1>3, <2>1, SegOf, ZenonT(60)
  <2> QED BY <1>1, <1>4, <2>2, HistoryOf DEF DecodeSet
<1> DEFINE kept == Lesser(conf.dict, KB64)
           s == LastBytes(D + conf.dict, kept)
<1>6. /\ kept \in Nat /\ kept =< conf.dict /\ (conf.dict > 0 => kept > 0)
      /\ D + conf.dict \in Int /\ (D + conf.dict) - kept >= D
  BY <1>2, <1>3, StreamingAssumption, SMT DEF Lesser
<1> HIDE DEF kept
<1>7. s \in Segments /\ End(s) = D + conf.dict /\ s.size = kept /\ s.at = (D + conf.dict) - kept
  <2>1. LET t == LastBytes(D + conf.dict, kept)
        IN  t \in Segments /\ End(t) = D + conf.dict /\ t.at = (D + conf.dict) - kept /\ t.size = kept
    <3> DEFINE end == D + conf.dict
    <3>1. end \in Int /\ kept \in Nat
      BY <1>6
    <3> HIDE DEF end
    <3>2. LET t == LastBytes(end, kept)
          IN  t \in Segments /\ End(t) = end /\ t.at = end - kept /\ t.size = kept
      BY <3>1, LastBytesOf
    <3> QED BY <3>2 DEF end
  <2> QED BY <2>1
<1>8. s.at # NULL
  BY <1>2, <1>3, <1>4, <1>6, <1>7, SMT
<1> HIDE DEF s
<1>9. CASE conf.mode = "fast"
  <2>1. enc.hist = None(NULL) \/ enc.hist = s
    BY <1>1, <1>9 DEF EncoderNew, FastNew, FastLoad, s, kept, D
  <2>2. enc.hist \in Segments /\ (enc.hist.size > 0 => enc.hist.size =< conf.dict /\ End(enc.hist) = D + conf.dict)
    <3>1. CASE enc.hist = None(NULL)
      BY <1>4, <3>1, SMT
    <3>2. CASE enc.hist = s
      BY <1>6, <1>7, <3>2
    <3> QED BY <2>1, <3>1, <3>2
  <2>3. Covered(conf.mode, enc.hist, dec.hist, enc.page * PageSize)
    BY <1>5, <1>9, <2>2 DEF Covered
  <2> QED BY <1>1, <1>5, <2>3 DEF InReach, Uncut
<1>10. CASE conf.mode = "hc"
  <2>1. CASE conf.dict > 0
    <3>1. enc.hist = History(s, None(D))
      BY <1>1, <1>10, <2>1 DEF EncoderNew, HCLoad, s, kept, D
    <3>2. None(D) \in Segments /\ None(D).size = 0
      BY <1>2, NoneOf, SMT
    <3>3. enc.hist \in Histories /\ enc.hist.prefix = s /\ enc.hist.ext.size = 0
      BY <1>7, <3>1, <3>2, HistoryOf
    <3>4. kept > 0 /\ kept # 0 /\ kept + 0 =< conf.dict + 0
      BY <1>3, <1>6, <2>1, SMT
    <3>5. Covered(conf.mode, enc.hist, dec.hist, enc.page * PageSize)
      BY <1>5, <1>6, <1>7, <1>8, <1>10, <3>3, <3>4 DEF Covered
    <3> QED BY <1>1, <1>5, <3>5 DEF InReach, Uncut
  <2>2. CASE ~ (conf.dict > 0)
    <3>1. enc.hist = History(None(NULL), None(NULL))
      BY <1>1, <1>10, <2>2 DEF EncoderNew, HCNew
    <3>2. enc.hist \in Histories /\ enc.hist.prefix = None(NULL)
      BY <1>4, <3>1, HistoryOf
    <3>3. ~ (enc.hist.prefix.size > 0)
      BY <1>4, <3>2, SMT
    <3>4. Covered(conf.mode, enc.hist, dec.hist, enc.page * PageSize)
      BY <1>4, <1>5, <1>10, <3>2, <3>3 DEF Covered
    <3> QED BY <1>1, <1>5, <3>4 DEF InReach, Uncut
  <2> QED BY <2>1, <2>2
<1> QED BY <1>3, <1>9, <1>10

LEMMA InReachStep == PairShape /\ PairShape' /\ InReach /\ [PairNext]_pairVars => InReach'
<1> SUFFICES ASSUME PairShape, PairShape', InReach, [PairNext]_pairVars, Kept', conf'.decPage = PageSize
             PROVE  InReach'
  BY DEF InReach
<1>0. conf' = conf
  BY DEF PairNext, pairVars, Compress, CompressLost, Decompress, DecompressFails, Refuse, FreeDict
<1>1. /\ Kept /\ conf.decPage = PageSize /\ DecPageSize = PageSize
      /\ conf.mode \in {"fast", "hc"} /\ conf.sizes \subseteq 0 .. PageSize
  BY <1>0, ConfIs DEF PairShape, Kept, DecPageSize
<1>2. /\ Uncut /\ dec.hist \in Histories
      /\ wire = NoBlock => Covered(conf.mode, enc.hist, dec.hist, enc.page * PageSize)
      /\ wire # NoBlock =>
           /\ DOMAIN wire.seen \subseteq Int
           /\ \A k \in DOMAIN wire.seen : k =< DecoderReach(DecodeHistory(dec.hist, dec.page * PageSize))
           /\ Covered(conf.mode, enc.hist, DecodeContinue(dec.hist, dec.page * PageSize, wire.n), enc.page * PageSize)
  BY <1>1 DEF InReach
<1>3. enc.page \in {0, 1} /\ dec.page \in {0, 1} /\ enc.page = IF wire = NoBlock THEN dec.page ELSE OtherPage(dec.page)
  BY <1>2 DEF PairShape
<1>4. ASSUME NEW n \in 0 .. PageSize, NEW csize \in {1, largest_block(n)}, Compress(n, csize)
      PROVE  InReach'
  <2> DEFINE src == enc.page * PageSize
             mem == Written(enc.mem, src, n, given)
             h == EncoderHistory(src, n)
  <2>1. /\ wire = NoBlock /\ wire' = Block(mem, src, n, csize) /\ enc'.hist = EncoderContinue(src, n)
        /\ enc'.page = OtherPage(enc.page) /\ got' = got /\ dec' = dec
    BY <1>4 DEF Compress
  <2>2. n \in Nat /\ src \in Nat /\ OtherPage(enc.page) * PageSize \in Nat /\ OtherPage(enc.page) * PageSize # src
    BY <1>3, PageAt, PageIsNat, SMT
  <2>3. wire' # NoBlock /\ wire'.n = n /\ DOMAIN wire'.seen = 1 .. Reach(h)
    BY <2>1, <2>2, BlockIs DEF Block
  <2>4. Covered(conf.mode, enc.hist, dec.hist, src)
    BY <1>2, <2>1
  <2>5. h \in Histories /\ Reach(h) =< DecoderReach(DecodeHistory(dec.hist, src))
    BY <1>1, <2>2, <2>4, CoveredReach
  <2>6. Reach(h) \in Int /\ DecoderReach(DecodeHistory(dec.hist, src)) \in Nat
    BY <1>2, <2>2, <2>5, ReachIs, DecoderReachIs
  <2>7. Covered(conf.mode, EncoderContinue(src, n), DecodeContinue(dec.hist, src, n), OtherPage(enc.page) * PageSize)
    BY <1>1, <2>2, <2>4, CoveredNext
  <2>8. dec.page = enc.page
    BY <1>3, <2>1
  <2> HIDE DEF h, mem
  <2>9. DOMAIN wire'.seen \subseteq Int /\ \A k \in DOMAIN wire'.seen : k =< DecoderReach(DecodeHistory(dec.hist, src))
    BY <2>3, <2>5, <2>6, SMT
  <2> HIDE DEF src
  <2>10. dec.page * PageSize = src
    BY <2>8 DEF src
  <2> QED BY <1>0, <1>1, <1>2, <2>1, <2>3, <2>7, <2>9, <2>10 DEF InReach, Uncut
<1>5. ASSUME NEW n \in 0 .. PageSize, CompressLost(n)
      PROVE  FALSE
  BY <1>1, <1>5 DEF CompressLost, Kept
<1>6. ASSUME NEW wild \in {0, Wild}, NEW kept \in BOOLEAN, Decompress(wild, kept)
      PROVE  InReach'
  <2>1. /\ wire # NoBlock /\ wire' = NoBlock /\ enc' = enc /\ got' \in {"exact", "lost", "wrong"}
        /\ dec'.hist = DecodeContinue(dec.hist, dec.page * PageSize, wire.n)
    BY <1>1, <1>6 DEF Decompress
  <2>2. Covered(conf.mode, enc.hist, dec'.hist, enc.page * PageSize)
    BY <1>2, <2>1
  <2>3. dec'.hist \in Histories
    BY <2>2 DEF Covered
  <2> QED BY <1>0, <2>1, <2>2, <2>3 DEF InReach, Uncut
<1>7. wire # NoBlock => Fits(wire) /\ wire.n \in 0 .. PageSize
  BY <1>1, BlocksFitPage DEF PairShape, Fits
<1>8. ASSUME DecompressFails PROVE FALSE
  <2> DEFINE r == DecoderReach(DecodeHistory(dec.hist, dec.page * PageSize))
  <2>1. wire # NoBlock /\ (wire.n > PageSize \/ CanFail(wire, DecodeHistory(dec.hist, dec.page * PageSize)))
    BY <1>1, <1>8 DEF DecompressFails
  <2>2. ~ (wire.n > PageSize)
    BY <1>7, <2>1, PageIsNat, SMT
  <2>3. PICK c \in Copied(wire) : c.k > r
    BY <2>1, <2>2 DEF CanFail
  <2>4. c.k \in DOMAIN wire.seen
    BY <2>3 DEF Copied
  <2>5. r \in Nat
    BY <1>2, <1>3, PageAt, DecoderReachIs
  <2>6. c.k =< r
    BY <1>2, <2>1, <2>4
  <2>7. DOMAIN wire.seen \subseteq Int
    BY <1>2, <2>1
  <2>8. c.k \in Int
    BY <2>4, <2>7
  <2> HIDE DEF r
  <2> QED BY <2>3, <2>5, <2>6, <2>8, SMT
<1>9. CASE Refuse
  BY <1>7, <1>9 DEF Refuse
<1>10. CASE FreeDict
  BY <1>1, <1>10 DEF FreeDict, Kept
<1>11. CASE UNCHANGED pairVars
  BY <1>11 DEF pairVars, InReach, Uncut, Kept
<1> QED BY <1>4, <1>5, <1>6, <1>8, <1>9, <1>10, <1>11 DEF PairNext

\* No block of a stream is refused for its length, and none refers to bytes
\* out of the decoder's reach, when both sides have pages of one size.
THEOREM PairNeverRefused == PairSpec => []NeverRefused
<1>1. PairInit => PairShape /\ InReach
  BY PairShapeInit, InReachInit
<1>2. PairShape /\ InReach /\ [PairNext]_pairVars => (PairShape /\ InReach)'
  BY PairShapeStep, InReachStep
<1>3. InReach => NeverRefused
  BY DEF InReach, NeverRefused, Uncut
<1> QED BY <1>1, <1>2, <1>3, PTL DEF PairSpec

\* When no block is on its way both sides are at the same page, whatever was
\* raised and whatever was lost.
THEOREM AlwaysInStep == PairSpec => []InStep
<1>1. PairShape => InStep
  BY DEF PairShape, InStep, Uncut
<1> QED BY <1>1, PairShapeInit, PairShapeStep, PTL DEF PairSpec

-----------------------------------------------------------------------------
(* What was compressed comes out.                                            *)

\* Chunks that never fill the page the two sides share, pages of the reader that
\* no chunk fills, and chunks that always do.
NotFull == PageSize \notin conf.sizes \/ conf.decPage < PageSize
Roomier == PageSize < conf.decPage /\ 0 \notin conf.sizes
AllFull == conf.sizes = {PageSize} /\ conf.decPage = PageSize

\* The segment at whose end the encoder takes the next byte to follow.
Latest(h) == IF conf.mode = "hc" THEN h.prefix ELSE h

Laden ==
  /\ IF conf.mode = "hc" THEN enc.hist \in Histories ELSE enc.hist \in Segments
  /\ dec.hist \in Histories
  /\ DOMAIN enc.mem = 0 .. DictAt(PageSize) + (conf.dict - 1)
  /\ DOMAIN dec.mem = 0 .. DictAt(DecPageSize) + (conf.dict - 1)
  /\ \A i \in 0 .. conf.dict - 1 : /\ enc.mem[DictAt(PageSize) + i] = i
                                   /\ dec.mem[DictAt(DecPageSize) + i] = i

\* The m bytes before the next one, the last chunk or the dictionary, lie where
\* the encoder takes them to lie and not in the page the next chunk is put in.
\* It reaches no further, unless chunks may fill their pages.
EncoderHas(m) ==
  LET q == Latest(enc.hist)
      src == enc.page * PageSize
  IN  /\ End(q) = src => q.size >= m
      /\ \A k \in 1 .. m : k =< q.size =>
           /\ End(q) - k \in DOMAIN enc.mem /\ End(q) - k \notin src .. src + (PageSize - 1)
           /\ enc.mem[End(q) - k] = given - k
      /\ NotFull => q.size =< m /\ End(q) # src

\* The same of the decoder.
DecoderHas(m) ==
  LET p == dec.hist.prefix
      dest == dec.page * DecPageSize
  IN  /\ p.size >= m
      /\ \A k \in 1 .. m :
           /\ End(p) - k \in DOMAIN dec.mem /\ End(p) - k \notin dest .. dest + (DecPageSize - 1)
           /\ dec.mem[End(p) - k] = given - k
      /\ Roomier => p.size = m /\ End(p) # dest

\* What the encoder took for the bytes before its block are the bytes before it,
\* and so is what the decoder will copy from there.
BlockRight ==
  LET dest == dec.page * DecPageSize
      h == DecodeHistory(dec.hist, dest)
  IN  /\ \A k \in DOMAIN wire.seen : k =< DecoderReach(h) =>
           /\ wire.seen[k] = wire.from - k
           /\ Back(h, k) \in DOMAIN dec.mem /\ Back(h, k) \notin dest .. dest + (DecPageSize - 1)
           /\ dec.mem[Back(h, k)] = wire.from - k
      /\ Roomier => End(dec.hist.prefix) # dest

\* The first page follows the dictionary, on both sides or for now only for the encoder.
Behind ==
  /\ given = conf.dict + PageSize
  /\ IF wire = NoBlock
     THEN /\ dec.hist.prefix.size = PageSize /\ End(dec.hist.prefix) = PageSize
          /\ dec.hist.ext = Seg(DictAt(DecPageSize), conf.dict)
     ELSE dec.hist.prefix = Seg(DictAt(DecPageSize), conf.dict)

\* The segment a high compression encoder has left when it is at the second page:
\* none, or what the next chunk will cover, or the dictionary.
Leftover ==
  LET e == enc.hist.ext
  IN  \/ e.size = 0
      \/ End(e) = 2 * PageSize
      \/ End(e) = DictAt(PageSize) + conf.dict /\ e.size =< conf.dict /\ Behind

\* Full pages follow one another: at the second the first is behind it, at the
\* first both are, and the chunk will cover half of them.
Turning(m) ==
  LET q == Latest(enc.hist)
  IN  \/ /\ enc.page = 0 /\ wire = NoBlock /\ given = conf.dict
         /\ q.size =< m /\ End(q) # 0 /\ (q.size > 0 => End(q) = DictAt(PageSize) + conf.dict)
         /\ q.size =< conf.dict
         /\ dec.hist.prefix = Seg(DictAt(DecPageSize), conf.dict)
      \/ enc.page = 0 /\ q = Seg(0, 2 * PageSize) /\ m = PageSize
      \/ enc.page = 1 /\ q = Seg(0, PageSize) /\ m = PageSize /\ (conf.mode = "hc" => Leftover)

InView(m) ==
  /\ Laden /\ EncoderHas(m) /\ (AllFull => Turning(m))
  /\ IF wire = NoBlock THEN DecoderHas(m)
     ELSE m = wire.n /\ m \in conf.sizes /\ wire.from \in Nat /\ wire.from + m = given /\ BlockRight

StillRight ==
  (Kept /\ Regular(conf) /\ Uncut /\ (wire # NoBlock => wire.n =< conf.decPage)) =>
    got # "wrong" /\ \E m \in Nat : InView(m)

LEMMA PrefixBytes ==
  ASSUME NEW h \in Histories
  PROVE  \A k \in 1 .. h.prefix.size : Back(h, k) = End(h.prefix) - k
<1>1. h.prefix.size \in Nat
  BY HistoryParts, SegmentParts
<1> QED BY <1>1, SMT DEF Back

\* Of a history with nothing before the block but a segment that ends like q.
LEMMA BesideBytes ==
  ASSUME NEW h \in Histories, NEW q \in Segments, h.prefix.size = 0, h.ext.size =< q.size,
         h.ext.size > 0 => End(h.ext) = End(q)
  PROVE  Reach(h) =< h.ext.size /\ \A k \in 1 .. Reach(h) : Back(h, k) = End(q) - k
<1>1. h.ext.size \in Nat /\ End(h.ext) \in Int
  BY HistoryParts, SegmentParts
<1>2. Reach(h) \in Int /\ Reach(h) =< h.ext.size
  BY <1>1, ReachIs, SMT
<1>3. ASSUME NEW k \in 1 .. Reach(h) PROVE Back(h, k) = End(q) - k
  <2>1. k \in Int /\ k > 0 /\ h.ext.size > 0
    BY <1>1, <1>2, SMT
  <2>2. Back(h, k) = End(h.ext) - (k - h.prefix.size)
    BY <2>1, SMT DEF Back
  <2>3. k - h.prefix.size = k
    BY <2>1, SMT
  <2> QED BY <2>1, <2>2, <2>3
<1> QED BY <1>2, <1>3

\* Where the encoder looks for the byte k before its block.
LEMMA FastSees ==
  ASSUME NEW q \in Segments, NEW at \in Nat, NEW n \in Nat
  PROVE  LET h == FastHistory(q, at, n)
         IN  /\ h \in Histories
             /\ \A k \in 1 .. Reach(h) : k =< q.size => Back(h, k) = End(q) - k
             /\ End(q) # at => Reach(h) =< q.size
             /\ (End(q) = at /\ q.size > 0) => Reach(h) =< q.size
             /\ (End(q) # at /\ at + n > q.at /\ at + n < End(q)) => Reach(h) =< End(q) - (at + n)
<1> DEFINE h == FastHistory(q, at, n)
<1>0. q.size \in Nat /\ q.at \in Int /\ End(q) \in Int /\ at \in Int /\ None(at) \in Segments /\ None(at).size = 0
  BY SegmentParts, NoneOf, SMT
<1>1. h \in Histories
  BY FastHistoryIs
<1>2. CASE End(q) = at /\ q.size > 0
  <2>1. h.prefix = q /\ h.ext.size = 0
    BY <1>0, <1>2, FastHistoryIs, HistoryOf
  <2> HIDE DEF h
  <2>2. Reach(h) \in Int /\ Reach(h) =< q.size
    BY <1>0, <1>1, <2>1, ReachIs, SMT
  <2>3. \A k \in 1 .. Reach(h) : Back(h, k) = End(q) - k
    BY <1>0, <1>1, <2>1, <2>2, PrefixBytes, SMT
  <2> QED BY <1>1, <1>2, <2>2, <2>3 DEF h
<1>3. CASE ~ (End(q) = at /\ q.size > 0)
  <2>1. End(q) # at \/ q.size = 0
    BY <1>0, <1>3, SMT
  <2>2. /\ h.prefix = None(at) /\ h.ext.size =< q.size
        /\ h.ext.size > 0 => End(h.ext) = End(q)
        /\ (at + n > q.at /\ at + n < End(q)) => h.ext.size =< End(q) - (at + n)
    BY <2>1, FastHistoryIs, ZenonT(60)
  <2> HIDE DEF h
  <2>3. Reach(h) =< h.ext.size /\ \A k \in 1 .. Reach(h) : Back(h, k) = End(q) - k
    BY <1>0, <1>1, <2>2, BesideBytes
  <2>4. Reach(h) \in Int /\ h.ext.size \in Int
    BY <1>1, ReachIs, HistoryParts, SegmentParts
  <2>5. Reach(h) =< q.size
    BY <1>0, <2>2, <2>3, <2>4, SMT
  <2>6. (at + n > q.at /\ at + n < End(q)) => Reach(h) =< End(q) - (at + n)
    BY <1>0, <2>2, <2>3, <2>4, SMT
  <2> QED BY <1>1, <1>3, <2>3, <2>5, <2>6 DEF h
<1> QED BY <1>2, <1>3

LEMMA HCSees ==
  ASSUME NEW e \in Histories, NEW at \in Nat, NEW n \in Nat
  PROVE  LET h == HCHistory(e, at, n)
             q == e.prefix
         IN  /\ h \in Histories
             /\ \A k \in 1 .. Reach(h) : k =< q.size => Back(h, k) = End(q) - k
             /\ End(q) # at => Reach(h) =< q.size
             /\ (End(q) # at /\ at + n > q.at /\ at + n < End(q)) => Reach(h) =< End(q) - (at + n)
<1> DEFINE h == HCHistory(e, at, n)
           q == e.prefix
<1>0. /\ q \in Segments /\ q.size \in Nat /\ q.at \in Int /\ End(q) \in Int /\ at \in Int
      /\ None(at) \in Segments /\ None(at).size = 0
  BY HistoryParts, SegmentParts, NoneOf, SMT
<1>1. h \in Histories
  BY HCHistoryIs, ZenonT(60)
<1>2. Reach(h) \in Int /\ Reach(h) =< h.prefix.size + h.ext.size /\ h.ext.size \in Nat
  BY <1>1, ReachIs, HistoryParts, SegmentParts
<1>3. CASE q.at = NULL
  <2>1. h.prefix = None(at) /\ h.ext.size = 0
    BY <1>3, HCHistoryIs, ZenonT(60)
  <2> HIDE DEF h, q
  <2>2. Reach(h) =< 0
    BY <1>0, <1>2, <2>1, SMT
  <2>3. 1 .. Reach(h) = {} /\ Reach(h) =< q.size /\ (at + n < End(q) => Reach(h) =< End(q) - (at + n))
    BY <1>0, <1>2, <2>2, SMT
  <2> QED BY <1>1, <2>3 DEF h, q
<1>4. CASE q.at # NULL /\ End(q) # at
  <2>1. /\ h.prefix = None(at) /\ h.ext.size =< q.size
        /\ h.ext.size > 0 => End(h.ext) = End(q)
        /\ (at + n > q.at /\ at < End(q)) => h.ext.size = 0 \/ h.ext.size =< End(q) - (at + n)
    BY <1>4, HCHistoryIs, ZenonT(60)
  <2> HIDE DEF h, q
  <2>2. Reach(h) =< h.ext.size /\ \A k \in 1 .. Reach(h) : Back(h, k) = End(q) - k
    BY <1>0, <1>1, <2>1, BesideBytes
  <2>3. Reach(h) =< q.size
    BY <1>0, <1>2, <2>1, <2>2, SMT
  <2>4. (at + n > q.at /\ at + n < End(q)) => Reach(h) =< End(q) - (at + n)
    BY <1>0, <1>2, <2>1, <2>2, SMT
  <2> QED BY <1>1, <2>2, <2>3, <2>4 DEF h, q
<1>5. CASE q.at # NULL /\ End(q) = at
  <2>1. h.prefix = q
    BY <1>5, HCHistoryIs, ZenonT(60)
  <2> HIDE DEF h, q
  <2>2. \A k \in 1 .. Reach(h) : k =< q.size => Back(h, k) = End(q) - k
    BY <1>0, <1>1, <1>2, <2>1, PrefixBytes, SMT
  <2> QED BY <1>1, <1>5, <2>2 DEF h, q
<1> QED BY <1>3, <1>4, <1>5

\* With a segment left before the prefix.
LEMMA LeftoverSeen ==
  ASSUME NEW e \in Histories, NEW at \in Nat, NEW n \in Nat, e.prefix.at # NULL, End(e.prefix) = at
  PROVE  LET h == HCHistory(e, at, n)
         IN  /\ (e.ext.size = 0 \/ (n > 0 /\ End(e.ext) = at + n)) => Reach(h) =< e.prefix.size
             /\ Reach(h) =< e.prefix.size + e.ext.size
             /\ \A k \in 1 .. Reach(h) : k > e.prefix.size => Back(h, k) = End(e.ext) - (k - e.prefix.size)
<1> DEFINE h == HCHistory(e, at, n)
           q == e.prefix
           x == e.ext
<1>0. /\ q.size \in Nat /\ x.size \in Nat /\ x.at \in Int /\ End(x) \in Int /\ End(x) = x.at + x.size
  BY HistoryParts, SegmentParts
<1>1. /\ h \in Histories /\ h.prefix = q /\ h.ext.size =< x.size
      /\ h.ext.size > 0 => End(h.ext) = End(x)
      /\ (at + n > x.at /\ at < End(x)) => h.ext.size = 0 \/ h.ext.size =< End(x) - (at + n)
  BY HCHistoryIs, ZenonT(60)
<1> HIDE DEF h, q, x
<1>2. Reach(h) \in Int /\ Reach(h) =< q.size + h.ext.size /\ h.ext.size \in Nat
  BY <1>1, ReachIs, HistoryParts, SegmentParts
<1>3. ASSUME x.size = 0 \/ (n > 0 /\ End(x) = at + n) PROVE Reach(h) =< q.size
  <2>1. h.ext.size = 0
    <3>1. CASE x.size = 0
      BY <1>1, <1>2, <3>1, SMT
    <3>2. CASE x.size > 0 /\ n > 0 /\ End(x) = at + n
      BY <1>0, <1>1, <1>2, <3>2, SMT
    <3> QED BY <1>0, <1>3, <3>1, <3>2, SMT
  <2> QED BY <1>0, <1>2, <2>1, SMT
<1>4. Reach(h) =< q.size + x.size
  BY <1>0, <1>1, <1>2, SMT
<1>5. ASSUME NEW k \in 1 .. Reach(h), k > q.size PROVE Back(h, k) = End(x) - (k - q.size)
  <2>1. k \in Int /\ ~ (k =< q.size) /\ h.ext.size > 0
    BY <1>0, <1>2, <1>5, SMT
  <2> QED BY <1>1, <2>1 DEF Back
<1> QED BY <1>3, <1>4, <1>5 DEF h, q, x

\* Where the decoder copies the byte k before its block from.
LEMMA DecoderSees ==
  ASSUME NEW d \in Histories, NEW dest \in Nat
  PROVE  \A k \in 1 .. d.prefix.size : Back(DecodeHistory(d, dest), k) = End(d.prefix) - k
<1> DEFINE p == d.prefix
           h == DecodeHistory(d, dest)
<1>0. p \in Segments /\ p.size \in Nat /\ End(p) \in Int /\ None(dest) \in Segments /\ None(dest).size = 0
  BY HistoryParts, SegmentParts, NoneOf, SMT
<1> SUFFICES ASSUME NEW k \in 1 .. p.size PROVE Back(h, k) = End(p) - k
  OBVIOUS
<1>1. p.size > 0 /\ k \in Int /\ k > 0
  BY <1>0, SMT
<1>2. CASE End(p) = dest
  <2>1. h = d
    BY <1>1, <1>2, DecodeHistoryIs
  <2> QED BY <2>1, PrefixBytes
<1>3. CASE End(p) # dest
  <2>1. h = History(None(dest), p)
    BY <1>1, <1>3, DecodeHistoryIs
  <2>2. h.prefix.size = 0 /\ h.ext = p
    BY <1>0, <2>1, HistoryOf
  <2> HIDE DEF h, p
  <2>3. Back(h, k) = End(p) - (k - 0)
    BY <1>1, <2>2, SMT DEF Back
  <2>4. k - 0 = k
    BY <1>1, SMT
  <2> QED BY <2>3, <2>4
<1> QED BY <1>2, <1>3

-----------------------------------------------------------------------------
(* Memory.                                                                   *)

LEMMA WrittenByte ==
  ASSUME NEW mem, NEW at \in Nat, NEW n \in Nat, NEW first \in Int, NEW k \in 1 .. n, at + n - k \in DOMAIN mem
  PROVE  Written(mem, at, n, first)[at + n - k] = first + n - k
<1>1. at + n - k \in at .. at + (n - 1) /\ first + ((at + n - k) - at) = first + n - k
  BY SMT
<1> QED BY <1>1 DEF Written

LEMMA SpoiledIs ==
  ASSUME NEW mem, NEW at \in Nat, NEW n \in Nat
  PROVE  LET m == Spoiled(mem, at, n)
         IN  /\ DOMAIN m = DOMAIN mem
             /\ \A a \in DOMAIN mem : a \notin at .. at + (n - 1) => m[a] = mem[a]
BY DEF Spoiled

\* A block is all in its page, what it leaves behind its end included.
LEMMA DecodedIs ==
  ASSUME NEW b, b.n \in Nat, b.from \in Int, b.n =< DecPageSize, DecPageSize \in Nat,
         NEW dest \in Nat, NEW wild \in Nat
  PROVE  LET m == Decoded(b, dest, wild)
         IN  /\ DOMAIN m = DOMAIN dec.mem
             /\ \A a \in DOMAIN dec.mem : a \notin dest .. dest + (DecPageSize - 1) => m[a] = dec.mem[a]
             /\ \A k \in 1 .. b.n : dest + b.n - k \in DOMAIN dec.mem => m[dest + b.n - k] = b.from + b.n - k
<1> DEFINE w == Written(dec.mem, dest, b.n, b.from)
           end == Lesser((b.n - LastLiterals) + wild, DecPageSize)
           past == IF b.n > MFLimit /\ end > b.n THEN end - b.n ELSE 0
           m == Decoded(b, dest, wild)
<1>0. {MFLimit, LastLiterals} \subseteq Nat
  BY PairAssumption
<1>1. end \in Int /\ end =< DecPageSize
  BY <1>0, SMT DEF Lesser
<1> HIDE DEF end
<1>2. past \in Nat /\ b.n + past =< DecPageSize
  BY <1>0, <1>1, SMT
<1>3. m = Spoiled(w, dest + b.n, past)
  BY DEF Decoded, end
<1> HIDE DEF past
<1>4. /\ DOMAIN w = DOMAIN dec.mem
      /\ \A a \in DOMAIN dec.mem : a \notin dest .. dest + (b.n - 1) => w[a] = dec.mem[a]
      /\ \A k \in 1 .. b.n : dest + b.n - k \in DOMAIN dec.mem => w[dest + b.n - k] = b.from + b.n - k
  <2>1. \A k \in 1 .. b.n : dest + b.n - k \in DOMAIN dec.mem => w[dest + b.n - k] = b.from + b.n - k
    <3> SUFFICES ASSUME NEW k \in 1 .. b.n, dest + b.n - k \in DOMAIN dec.mem
                 PROVE  w[dest + b.n - k] = b.from + b.n - k
      OBVIOUS
    <3> QED BY WrittenByte
  <2>2. /\ DOMAIN w = DOMAIN dec.mem
        /\ \A a \in DOMAIN dec.mem : a \notin dest .. dest + (b.n - 1) => w[a] = dec.mem[a]
    BY DEF Written
  <2> QED BY <2>1, <2>2
<1> HIDE DEF w
<1>5. dest + b.n \in Nat
  BY SMT
<1>6. /\ DOMAIN m = DOMAIN w
      /\ \A a \in DOMAIN w : a \notin (dest + b.n) .. (dest + b.n) + (past - 1) => m[a] = w[a]
  <2> DEFINE at == dest + b.n
  <2>1. m = Spoiled(w, at, past) /\ at \in Nat
    BY <1>3, <1>5
  <2> HIDE DEF at, m
  <2>2. LET v == Spoiled(w, at, past)
        IN  /\ DOMAIN v = DOMAIN w
            /\ \A a \in DOMAIN w : a \notin at .. at + (past - 1) => v[a] = w[a]
    BY <1>2, <2>1, SpoiledIs, ZenonT(60)
  <2> QED BY <2>1, <2>2 DEF at
<1> HIDE DEF m
<1>7. ASSUME NEW a \in DOMAIN dec.mem, a \notin dest .. dest + (DecPageSize - 1) PROVE m[a] = dec.mem[a]
  <2>1. a \notin dest .. dest + (b.n - 1) /\ a \notin (dest + b.n) .. (dest + b.n) + (past - 1)
    BY <1>2, <1>7, SMT
  <2> QED BY <1>4, <1>6, <2>1
<1>8. ASSUME NEW k \in 1 .. b.n, dest + b.n - k \in DOMAIN dec.mem PROVE m[dest + b.n - k] = b.from + b.n - k
  <2>1. dest + b.n - k \notin (dest + b.n) .. (dest + b.n) + (past - 1)
    BY <1>2, SMT
  <2> QED BY <1>4, <1>6, <1>8, <2>1
<1> QED BY <1>4, <1>6, <1>7, <1>8 DEF m

-----------------------------------------------------------------------------
(* The encoder's latest segment.                                             *)

Mode == conf.mode \in {"fast", "hc"}
Kind == IF conf.mode = "hc" THEN enc.hist \in Histories ELSE enc.hist \in Segments

LEMMA LatestParts ==
  ASSUME Kind
  PROVE  LET q == Latest(enc.hist)
         IN  q \in Segments /\ q.size \in Nat /\ q.at \in Int /\ End(q) \in Int /\ End(q) = q.at + q.size
<1>1. Latest(enc.hist) \in Segments
  BY HistoryParts DEF Kind, Latest
<1> QED BY <1>1, SegmentParts

LEMMA LatestNext ==
  ASSUME Mode, Kind, NEW at \in Nat, NEW n \in Nat
  PROVE  LET q == Latest(enc.hist)
             c == EncoderContinue(at, n)
             f == Latest(c)
         IN  /\ IF conf.mode = "hc" THEN c \in Histories ELSE c \in Segments
             /\ f.size \in Nat /\ f.size >= n /\ End(f) = at + n
             /\ End(q) # at => f = Seg(at, n)
             /\ (End(q) = at /\ q.size > 0 /\ q.at # NULL) => f = Seg(q.at, q.size + n)
<1> DEFINE q == Latest(enc.hist)
           c == EncoderContinue(at, n)
           f == Latest(c)
<1>0. q \in Segments /\ q.size \in Nat /\ q.at \in Int /\ End(q) = q.at + q.size
  BY LatestParts
<1>1. /\ IF conf.mode = "hc" THEN c \in Histories ELSE c \in Segments
      /\ (End(q) # at => f = Seg(at, n))
      /\ ((End(q) = at /\ q.size > 0 /\ q.at # NULL) => f = Seg(q.at, q.size + n))
      /\ (f = Seg(at, n) \/ (End(q) = at /\ f = Seg(q.at, q.size + n)))
  <2>1. Seg(at, n) \in Segments /\ Seg(q.at, q.size + n) \in Segments
    BY <1>0, SMT DEF Seg, Segments
  <2>2. CASE conf.mode = "fast"
    <3>1. q = enc.hist /\ f = c /\ c = FastContinue(enc.hist, at, n) /\ enc.hist \in Segments
      BY <2>2 DEF Latest, EncoderContinue, Kind
    <3>2. c = IF End(q) = at /\ q.size > 0 THEN Seg(q.at, q.size + n) ELSE Seg(at, n)
      BY <3>1, FastContinueIs
    <3> QED BY <2>1, <2>2, <3>1, <3>2
  <2>3. CASE conf.mode = "hc"
    <3>1. q = enc.hist.prefix /\ f = c.prefix /\ c = HCContinue(enc.hist, at, n) /\ enc.hist \in Histories
      BY <2>3 DEF Latest, EncoderContinue, Kind
    <3>2. LET g == HCContinue(enc.hist, at, n)
              p == enc.hist.prefix
          IN  g \in Histories /\ g.prefix = IF p.at # NULL /\ End(p) = at THEN Seg(p.at, p.size + n) ELSE Seg(at, n)
      BY <3>1, HCContinueIs, ZenonT(60)
    <3> QED BY <2>3, <3>1, <3>2
  <2> QED BY <2>2, <2>3 DEF Mode
<1>2. f.size \in Nat /\ f.size >= n /\ End(f) = at + n
  <2> HIDE DEF q, f, c
  <2>1. CASE f = Seg(at, n)
    BY <2>1, SMT DEF Seg, End
  <2>2. CASE End(q) = at /\ f = Seg(q.at, q.size + n)
    BY <1>0, <2>2, SMT DEF Seg, End
  <2> QED BY <1>1, <2>1, <2>2
<1> QED BY <1>1, <1>2

LEMMA LatestSeen ==
  ASSUME Mode, Kind, NEW at \in Nat, NEW n \in Nat
  PROVE  LET q == Latest(enc.hist)
             h == EncoderHistory(at, n)
         IN  /\ h \in Histories
             /\ \A k \in 1 .. Reach(h) : k =< q.size => Back(h, k) = End(q) - k
             /\ End(q) # at => Reach(h) =< q.size
             /\ (conf.mode = "fast" /\ End(q) = at /\ q.size > 0) => Reach(h) =< q.size
             /\ (End(q) # at /\ at + n > q.at /\ at + n < End(q)) => Reach(h) =< End(q) - (at + n)
<1>1. CASE conf.mode = "fast"
  <2>1. Latest(enc.hist) = enc.hist /\ EncoderHistory(at, n) = FastHistory(enc.hist, at, n) /\ enc.hist \in Segments
    BY <1>1 DEF Latest, EncoderHistory, Kind
  <2> QED BY <1>1, <2>1, FastSees
<1>2. CASE conf.mode = "hc"
  <2>1. /\ Latest(enc.hist) = enc.hist.prefix /\ EncoderHistory(at, n) = HCHistory(enc.hist, at, n)
        /\ enc.hist \in Histories /\ conf.mode # "fast"
    BY <1>2 DEF Latest, EncoderHistory, Kind
  <2>2. LET h == HCHistory(enc.hist, at, n)
            q == enc.hist.prefix
        IN  /\ h \in Histories
            /\ \A k \in 1 .. Reach(h) : k =< q.size => Back(h, k) = End(q) - k
            /\ End(q) # at => Reach(h) =< q.size
            /\ (End(q) # at /\ at + n > q.at /\ at + n < End(q)) => Reach(h) =< End(q) - (at + n)
    BY <2>1, HCSees, ZenonT(60)
  <2> QED BY <2>1, <2>2
<1> QED BY <1>1, <1>2 DEF Mode

-----------------------------------------------------------------------------
(* Both sides see the same bytes.                                            *)

LEMMA RegularCases ==
  ASSUME PairShape, Regular(conf)
  PROVE  NotFull \/ Roomier \/ AllFull
<1>1. conf.decPage \in Nat
  BY ConfIs DEF PairShape
<1>2. conf.decPage = PageSize \/ conf.decPage < PageSize \/ PageSize < conf.decPage
  BY <1>1, PageIsNat, SMT
<1> QED BY <1>2 DEF Regular, NotFull, Roomier, AllFull

\* Where a page begins.
LEMMA PageOf ==
  ASSUME NEW size \in Nat, NEW page \in {0, 1}
  PROVE  /\ page * size \in Nat
         /\ page = 0 => page * size = 0
         /\ page = 1 => page * size = size
<1>1. 0 * size = 0 /\ 1 * size = size /\ 0 \in Nat
  BY SMT
<1> QED BY <1>1

LEMMA Sizes ==
  ASSUME PairShape
  PROVE  /\ PageSize \in Nat /\ PageSize > 0 /\ DecPageSize \in Nat /\ conf.dict \in Nat /\ given \in Nat
         /\ enc.page * PageSize \in Nat /\ dec.page * DecPageSize \in Nat
         /\ enc.page * PageSize =< PageSize /\ dec.page * DecPageSize =< DecPageSize
<1>1. PageSize \in Nat /\ PageSize > 0
  BY PageIsNat, SMT
<1>2. DecPageSize \in Nat /\ conf.dict \in Nat /\ given \in Nat
  BY ConfIs DEF PairShape, DecPageSize
<1>3. enc.page \in {0, 1} /\ dec.page \in {0, 1}
  BY DEF PairShape
<1>4. enc.page * PageSize \in Nat /\ (enc.page * PageSize = 0 \/ enc.page * PageSize = PageSize)
  BY <1>1, <1>3, PageOf
<1>5. dec.page * DecPageSize \in Nat /\ (dec.page * DecPageSize = 0 \/ dec.page * DecPageSize = DecPageSize)
  BY <1>2, <1>3, PageOf
<1> QED BY <1>1, <1>2, <1>4, <1>5, SMT

\* What the encoder sees k before the next chunk, where the decoder will look
\* for it, and what is there.
Alike(n, k) ==
  LET src == enc.page * PageSize
      dest == dec.page * DecPageSize
      a == Back(EncoderHistory(src, n), k)
      b == Back(DecodeHistory(dec.hist, dest), k)
  IN  /\ a \in DOMAIN enc.mem /\ a \notin src .. src + (PageSize - 1) /\ enc.mem[a] = given - k
      /\ b \in DOMAIN dec.mem /\ b \notin dest .. dest + (DecPageSize - 1) /\ dec.mem[b] = given - k

\* Of the last chunk, or the dictionary.
LEMMA NearAlike ==
  ASSUME Mode, Kind, PairShape, dec.hist \in Histories, NEW m \in Nat, EncoderHas(m), DecoderHas(m), NEW n \in Nat,
         NEW k \in 1 .. Reach(EncoderHistory(enc.page * PageSize, n)), k =< m
  PROVE  Alike(n, k)
<1> DEFINE q == Latest(enc.hist)
           p == dec.hist.prefix
           src == enc.page * PageSize
           dest == dec.page * DecPageSize
           h == EncoderHistory(src, n)
           g == DecodeHistory(dec.hist, dest)
<1>0. q.size \in Nat /\ End(q) \in Int /\ src \in Nat /\ dest \in Nat /\ p.size \in Nat
  BY LatestParts, Sizes, HistoryParts, SegmentParts
<1>1. /\ h \in Histories
      /\ k =< q.size => Back(h, k) = End(q) - k
      /\ End(q) # src => Reach(h) =< q.size
  BY <1>0, LatestSeen
<1>2. Reach(h) \in Int
  BY <1>1, ReachIs
<1>3. /\ End(q) = src => q.size >= m
      /\ \A i \in 1 .. m : i =< q.size =>
           /\ End(q) - i \in DOMAIN enc.mem /\ End(q) - i \notin src .. src + (PageSize - 1)
           /\ enc.mem[End(q) - i] = given - i
  BY DEF EncoderHas
<1>4. /\ p.size >= m
      /\ \A i \in 1 .. m :
           /\ End(p) - i \in DOMAIN dec.mem /\ End(p) - i \notin dest .. dest + (DecPageSize - 1)
           /\ dec.mem[End(p) - i] = given - i
  BY DEF DecoderHas
<1>5. \A i \in 1 .. p.size : Back(g, i) = End(p) - i
  BY <1>0, DecoderSees
<1>6. k \in 1 .. Reach(h)
  OBVIOUS
<1>7. Alike(n, k) <=>
        /\ Back(h, k) \in DOMAIN enc.mem /\ Back(h, k) \notin src .. src + (PageSize - 1)
        /\ enc.mem[Back(h, k)] = given - k
        /\ Back(g, k) \in DOMAIN dec.mem /\ Back(g, k) \notin dest .. dest + (DecPageSize - 1)
        /\ dec.mem[Back(g, k)] = given - k
  BY DEF Alike
<1> HIDE DEF q, p, src, dest, h, g
<1>8. k =< q.size /\ k \in 1 .. m /\ k \in 1 .. p.size
  <2>1. k \in Int /\ k > 0 /\ k =< Reach(h)
    BY <1>2, <1>6, SMT
  <2>2. CASE End(q) = src
    BY <1>0, <1>3, <1>4, <2>1, <2>2, SMT
  <2>3. CASE End(q) # src
    BY <1>0, <1>1, <1>2, <1>4, <2>1, <2>3, SMT
  <2> QED BY <2>2, <2>3
<1>9. Back(h, k) = End(q) - k /\ Back(g, k) = End(p) - k
  BY <1>1, <1>5, <1>8
<1> QED BY <1>3, <1>4, <1>7, <1>8, <1>9

\* Further back there is only the dictionary, when the first page follows it.
LEMMA FarAlike ==
  ASSUME Mode, PairShape, Regular(conf), wire = NoBlock, Uncut, NEW m \in Nat, Laden, EncoderHas(m), DecoderHas(m),
         AllFull => Turning(m), NEW n \in conf.sizes, n \in Nat,
         NEW k \in 1 .. Reach(EncoderHistory(enc.page * PageSize, n)), k > m,
         k =< DecoderReach(DecodeHistory(dec.hist, dec.page * DecPageSize))
  PROVE  Alike(n, k)
<1> DEFINE q == Latest(enc.hist)
           p == dec.hist.prefix
           x == enc.hist.ext
           src == enc.page * PageSize
           dest == dec.page * DecPageSize
           h == EncoderHistory(src, n)
           g == DecodeHistory(dec.hist, dest)
<1>0. /\ Kind /\ dec.hist \in Histories /\ p.size \in Nat /\ End(p) \in Int
      /\ q.size \in Nat /\ q.at \in Int /\ End(q) \in Int /\ End(q) = q.at + q.size
  BY LatestParts, HistoryParts, SegmentParts DEF Laden, Kind
<1>1. /\ PageSize \in Nat /\ PageSize > 0 /\ DecPageSize \in Nat /\ conf.dict \in Nat /\ given \in Nat
      /\ src \in Nat /\ dest \in Nat
  BY Sizes
<1>2. /\ h \in Histories
      /\ End(q) # src => Reach(h) =< q.size
      /\ (conf.mode = "fast" /\ End(q) = src /\ q.size > 0) => Reach(h) =< q.size
      /\ (End(q) # src /\ src + n > q.at /\ src + n < End(q)) => Reach(h) =< End(q) - (src + n)
  BY <1>0, <1>1, LatestSeen
<1>3. Reach(h) \in Int /\ k \in Int /\ k > 0 /\ k =< Reach(h)
  <2>1. Reach(h) \in Int
    BY <1>2, ReachIs
  <2> QED BY <2>1, SMT
<1>4. CASE NotFull
  <2>1. q.size =< m /\ End(q) # src
    BY <1>4 DEF EncoderHas
  <2> HIDE DEF q, h, src
  <2> QED BY <1>0, <1>2, <1>3, <2>1, SMT
<1>5. CASE Roomier
  <2>1. p.size = m /\ End(p) # dest
    BY <1>5 DEF DecoderHas
  <2>2. DecoderReach(g) = m
    BY <1>0, <1>1, <2>1, DecoderReachIs
  <2> HIDE DEF g, dest
  <2> QED BY <1>3, <2>2, SMT DEF g, dest
<1>6. CASE AllFull
  <2>1. n = PageSize /\ DecPageSize = PageSize /\ Turning(m)
    BY <1>6 DEF AllFull, DecPageSize
  <2>2. CASE enc.page = 0 /\ q.size =< m /\ End(q) # 0
    <3>1. src = 0
      BY <1>1, <2>2, PageOf
    <3> HIDE DEF q, h, src
    <3> QED BY <1>0, <1>2, <1>3, <2>2, <3>1, SMT
  <2>3. CASE enc.page = 0 /\ q = Seg(0, 2 * PageSize) /\ m = PageSize
    <3>1. src = 0
      BY <1>1, <2>3, PageOf
    <3>2. q.at = 0 /\ q.size = 2 * PageSize
      BY <2>3 DEF Seg
    <3> HIDE DEF q, h, src
    <3>3. End(q) = 2 * PageSize /\ src + n = PageSize
      BY <1>0, <1>1, <2>1, <3>1, <3>2, SMT
    <3>4. Reach(h) =< End(q) - (src + n)
      BY <1>1, <1>2, <3>1, <3>2, <3>3, SMT
    <3> QED BY <1>1, <1>3, <2>3, <3>3, <3>4, SMT
  <2>4. CASE enc.page = 1 /\ q = Seg(0, PageSize) /\ m = PageSize /\ (conf.mode = "hc" => Leftover)
    <3>1. src = PageSize /\ dest = PageSize
      <4>1. dec.page = 1
        BY <2>4 DEF PairShape
      <4> QED BY <1>1, <2>1, <2>4, <4>1, PageOf
    <3>2. q.at = 0 /\ q.size = PageSize /\ End(q) = PageSize
      <4>1. q.at = 0 /\ q.size = PageSize
        BY <2>4 DEF Seg
      <4> QED BY <1>0, <1>1, <4>1, SMT
    <3>3. CASE conf.mode = "fast"
      <4> HIDE DEF q, h, src
      <4> QED BY <1>0, <1>1, <1>2, <1>3, <2>4, <3>1, <3>2, <3>3, SMT
    <3>4. CASE conf.mode = "hc"
      <4>0. /\ enc.hist \in Histories /\ q = enc.hist.prefix /\ h = HCHistory(enc.hist, src, n)
            /\ x.size \in Nat /\ End(x) \in Int
        BY <1>0, <3>4, HistoryParts, SegmentParts DEF Kind, Latest, EncoderHistory
      <4>1. q.at # NULL /\ End(q) = src
        BY <3>1, <3>2, SMT DEF NULL
      <4>2. /\ (x.size = 0 \/ (n > 0 /\ End(x) = src + n)) => Reach(h) =< q.size
            /\ Reach(h) =< q.size + x.size
            /\ \A i \in 1 .. Reach(h) : i > q.size => Back(h, i) = End(x) - (i - q.size)
        <5>1. LET f == HCHistory(enc.hist, src, n)
              IN  /\ (enc.hist.ext.size = 0 \/ (n > 0 /\ End(enc.hist.ext) = src + n)) => Reach(f) =< enc.hist.prefix.size
                  /\ Reach(f) =< enc.hist.prefix.size + enc.hist.ext.size
                  /\ \A i \in 1 .. Reach(f) : i > enc.hist.prefix.size =>
                       Back(f, i) = End(enc.hist.ext) - (i - enc.hist.prefix.size)
          <6>1. enc.hist.prefix.at # NULL /\ End(enc.hist.prefix) = src /\ src \in Nat /\ n \in Nat
            BY <1>1, <4>0, <4>1
          <6> HIDE DEF src
          <6> QED BY <4>0, <6>1, LeftoverSeen, ZenonT(60)
        <5> QED BY <4>0, <5>1
      <4>3. src + n = 2 * PageSize /\ n > 0
        BY <1>1, <2>1, <3>1, SMT
      <4>4. CASE x.size = 0 \/ End(x) = 2 * PageSize
        <5>1. Reach(h) =< q.size
          BY <4>2, <4>3, <4>4
        <5> HIDE DEF q, h
        <5> QED BY <1>1, <1>3, <2>4, <3>2, <5>1, SMT
      <4>5. CASE End(x) = DictAt(PageSize) + conf.dict /\ x.size =< conf.dict /\ Behind
        <5> DEFINE j == k - PageSize
                   D == DictAt(PageSize)
        <5>1. /\ given = conf.dict + PageSize /\ p.size = PageSize /\ End(p) = PageSize
              /\ dec.hist.ext = Seg(D, conf.dict)
          BY <2>1, <4>5 DEF Behind
        <5>2. g = dec.hist
          BY <1>0, <1>1, <3>1, <5>1, DecodeHistoryIs
        <5>3. D \in Nat /\ D = 2 * PageSize + 1
          BY <1>1, SMT DEF DictAt
        <5>4. End(dec.hist.ext) = D + conf.dict
          <6>1. D \in Int
            BY <5>3, SMT
          <6> HIDE DEF D
          <6>2. LET s == Seg(D, conf.dict) IN End(s) = D + conf.dict
            BY <1>1, <6>1, SegOf
          <6> QED BY <5>1, <6>2
        <5>5. k > PageSize /\ j \in 1 .. conf.dict /\ given - k = conf.dict - j /\ k \in 1 .. Reach(h)
          <6> HIDE DEF h, q, x
          <6> QED BY <1>0, <1>1, <1>3, <2>4, <3>2, <4>0, <4>2, <4>5, <5>1, SMT
        <5>6. Back(h, k) = (D + conf.dict) - j
          BY <3>2, <4>2, <4>5, <5>5
        <5>7. Back(g, k) = (D + conf.dict) - j
          <6> HIDE DEF g, D
          <6>1. ~ (k =< g.prefix.size) /\ g.prefix.size = PageSize
            BY <1>1, <1>3, <5>1, <5>2, <5>5, SMT
          <6> QED BY <5>2, <5>4, <6>1 DEF Back
        <5>8. /\ DOMAIN enc.mem = 0 .. D + (conf.dict - 1)
              /\ DOMAIN dec.mem = 0 .. D + (conf.dict - 1)
              /\ \A i \in 0 .. conf.dict - 1 : enc.mem[D + i] = i /\ dec.mem[D + i] = i
          BY <2>1 DEF Laden
        <5> HIDE DEF j, D
        <5> DEFINE i == conf.dict - j
        <5>9. /\ (D + conf.dict) - j = D + i /\ i \in 0 .. conf.dict - 1 /\ D + i \in 0 .. D + (conf.dict - 1)
              /\ D + i \notin PageSize .. PageSize + (PageSize - 1)
          BY <1>1, <5>3, <5>5, SMT
        <5> HIDE DEF i
        <5>10. enc.mem[D + i] = i /\ dec.mem[D + i] = i
          BY <5>8, <5>9
        <5>11. given - k = i
          BY <5>5 DEF i
        <5>12. /\ D + i \in DOMAIN enc.mem /\ D + i \notin src .. src + (PageSize - 1)
               /\ D + i \in DOMAIN dec.mem /\ D + i \notin dest .. dest + (DecPageSize - 1)
          BY <2>1, <3>1, <5>8, <5>9
        <5> QED BY <5>6, <5>7, <5>9, <5>10, <5>11, <5>12 DEF Alike
      <4> QED BY <2>4, <3>4, <4>4, <4>5 DEF Leftover
    <3> QED BY <3>3, <3>4 DEF Mode
  <2> QED BY <2>1, <2>2, <2>3, <2>4 DEF Turning
<1> QED BY <1>4, <1>5, <1>6, RegularCases

-----------------------------------------------------------------------------
(* One step of each side.                                                    *)

\* What Compress does to the encoder.
Compressed(n) ==
  LET src == enc.page * PageSize
  IN  /\ enc'.mem = Written(enc.mem, src, n, given)
      /\ enc'.hist = EncoderContinue(src, n)
      /\ enc'.page = OtherPage(enc.page)
      /\ given' = given + n
      /\ conf' = conf /\ dec' = dec

\* No two pages have a byte in common.
LEMMA OtherPageApart ==
  ASSUME NEW size \in Nat, NEW page \in {0, 1}, NEW a \in page * size .. page * size + (size - 1)
  PROVE  /\ a \in 0 .. 2 * size - 1
         /\ a \notin OtherPage(page) * size .. OtherPage(page) * size + (size - 1)
<1>1. (page = 0 /\ OtherPage(page) = 1) \/ (page = 1 /\ OtherPage(page) = 0)
  BY SMT DEF OtherPage
<1>2. CASE page = 0 /\ OtherPage(page) = 1
  <2>1. page * size = 0 /\ OtherPage(page) * size = size
    BY <1>2, PageOf
  <2> QED BY <2>1, SMT
<1>3. CASE page = 1 /\ OtherPage(page) = 0
  <2>1. page * size = size /\ OtherPage(page) * size = 0
    BY <1>3, PageOf
  <2> QED BY <2>1, SMT
<1> QED BY <1>1, <1>2, <1>3

\* The dictionary lies behind both pages.
LEMMA LadenNext ==
  ASSUME Mode, PairShape, Laden, NEW n \in 0 .. PageSize, Compressed(n)
  PROVE  Laden'
<1> DEFINE src == enc.page * PageSize
           D == DictAt(PageSize)
<1>0. /\ PageSize \in Nat /\ conf.dict \in Nat /\ given \in Int /\ src \in Nat /\ src =< PageSize /\ n \in Nat
      /\ D \in Nat /\ D = 2 * PageSize + 1
  BY Sizes, SMT DEF DictAt
<1>1. /\ enc'.mem = Written(enc.mem, src, n, given) /\ enc'.hist = EncoderContinue(src, n)
      /\ conf' = conf /\ dec' = dec /\ DecPageSize' = DecPageSize
  BY DEF Compressed, DecPageSize
<1>2. /\ Kind /\ dec.hist \in Histories
      /\ DOMAIN enc.mem = 0 .. D + (conf.dict - 1)
      /\ DOMAIN dec.mem = 0 .. DictAt(DecPageSize) + (conf.dict - 1)
      /\ \A i \in 0 .. conf.dict - 1 : enc.mem[D + i] = i /\ dec.mem[DictAt(DecPageSize) + i] = i
  BY DEF Laden, Kind
<1>3. IF conf.mode = "hc" THEN enc'.hist \in Histories ELSE enc'.hist \in Segments
  <2> HIDE DEF src
  <2>1. LET c == EncoderContinue(src, n) IN IF conf.mode = "hc" THEN c \in Histories ELSE c \in Segments
    BY <1>0, <1>2, LatestNext
  <2> QED BY <1>1, <2>1
<1> HIDE DEF src, D
<1>4. DOMAIN enc'.mem = DOMAIN enc.mem
  BY <1>1 DEF Written
<1>5. ASSUME NEW i \in 0 .. conf.dict - 1 PROVE enc'.mem[D + i] = i
  <2>1. D + i \in 0 .. D + (conf.dict - 1) /\ D + i \notin src .. src + (n - 1)
    BY <1>0, SMT
  <2>2. enc'.mem[D + i] = enc.mem[D + i]
    BY <1>1, <1>2, <2>1 DEF Written
  <2> QED BY <1>2, <2>2
<1> QED BY <1>1, <1>2, <1>3, <1>4, <1>5 DEF Laden, D

\* Its last chunk lies in the page it has left.
LEMMA EncoderNext ==
  ASSUME Mode, PairShape, Laden, NEW m, EncoderHas(m), NEW n \in 0 .. PageSize, n \in conf.sizes, n =< conf.decPage,
         Compressed(n)
  PROVE  EncoderHas(n)'
<1> DEFINE src == enc.page * PageSize
           next == OtherPage(enc.page) * PageSize
           q == Latest(enc.hist)
           f == Latest(EncoderContinue(src, n))
           mem == Written(enc.mem, src, n, given)
           D == DictAt(PageSize)
<1>0. /\ PageSize \in Nat /\ conf.dict \in Nat /\ given \in Int /\ src \in Nat /\ n \in Nat
      /\ D \in Nat /\ D = 2 * PageSize + 1 /\ Kind
      /\ DOMAIN enc.mem = 0 .. D + (conf.dict - 1)
  BY Sizes, SMT DEF DictAt, Laden, Kind
<1>1. /\ enc'.mem = mem /\ Latest(enc.hist)' = f /\ enc'.page * PageSize = next
      /\ given' = given + n /\ NotFull' = NotFull
  BY DEF Compressed, Latest, NotFull
<1>2. f.size \in Nat /\ f.size >= n /\ End(f) = src + n /\ (End(q) # src => f = Seg(src, n))
  <2> HIDE DEF src
  <2> QED BY <1>0, LatestNext
<1>3. enc.page \in {0, 1}
  BY DEF PairShape
<1>4. ASSUME NEW k \in 1 .. n
      PROVE  /\ End(f) - k \in DOMAIN mem /\ End(f) - k \notin next .. next + (PageSize - 1)
             /\ mem[End(f) - k] = (given + n) - k
  <2>1. src + n - k \in src .. src + (PageSize - 1)
    <3> HIDE DEF src
    <3> QED BY <1>0, SMT
  <2>2. src + n - k \in 0 .. 2 * PageSize - 1 /\ src + n - k \notin next .. next + (PageSize - 1)
    BY <1>0, <1>3, <2>1, OtherPageApart
  <2> HIDE DEF src, next, f, D, mem
  <2>3. src + n - k \in DOMAIN enc.mem
    BY <1>0, <2>2, SMT
  <2>4. mem[src + n - k] = given + n - k
    <3>1. src + n - k \in src .. src + (n - 1) /\ given + ((src + n - k) - src) = given + n - k
      BY <1>0, SMT
    <3> QED BY <2>3, <3>1 DEF mem, Written
  <2>5. DOMAIN mem = DOMAIN enc.mem
    BY DEF mem, Written
  <2>6. End(f) - k = src + n - k /\ (given + n) - k = given + n - k
    BY <1>0, <1>2, SMT
  <2> QED BY <2>2, <2>3, <2>4, <2>5, <2>6
<1>5. ASSUME NotFull PROVE f.size =< n /\ End(f) # next
  <2>1. n < PageSize
    BY <1>0, <1>5, ConfIs, SMT DEF NotFull, PairShape
  <2>2. f = Seg(src, n)
    BY <1>2, <1>5 DEF EncoderHas
  <2>3. f.size = n
    BY <2>2 DEF Seg
  <2>4. src + n # next
    <3>1. (src = 0 /\ next = PageSize) \/ (src = PageSize /\ next = 0)
      BY <1>0, <1>3, PageAt
    <3> HIDE DEF src, next
    <3> QED BY <1>0, <2>1, <3>1, SMT
  <2> HIDE DEF f
  <2> QED BY <1>2, <2>3, <2>4, SMT
<1> HIDE DEF src, next, f, mem
<1> QED BY <1>1, <1>2, <1>4, <1>5 DEF EncoderHas

\* What is left of the segment before the last.
LEMMA LeftoverNext ==
  ASSUME conf.mode = "hc", Kind, NEW at \in Nat, NEW n \in Nat, End(Latest(enc.hist)) # at
  PROVE  LET e == EncoderContinue(at, n).ext
             q == Latest(enc.hist)
         IN  e.size =< q.size /\ e.size \in Nat /\ (e.size > 0 => End(e) = End(q))
<1> DEFINE g == HCHistory(enc.hist, at, n)
           c == HCContinue(enc.hist, at, n)
           q == enc.hist.prefix
<1>1. enc.hist \in Histories /\ Latest(enc.hist) = q /\ EncoderContinue(at, n) = c
  BY DEF Kind, Latest, EncoderContinue
<1>2. c \in Histories /\ c.ext = g.ext
  BY <1>1, HCContinueIs, ZenonT(60)
<1>3. c.ext.size \in Nat /\ q.size \in Nat
  BY <1>1, <1>2, HistoryParts, SegmentParts
<1>4. CASE q.at = NULL
  <2>1. g.ext.size = 0
    BY <1>1, <1>4, HCHistoryIs, ZenonT(60)
  <2> HIDE DEF g, c, q
  <2>2. c.ext.size =< q.size /\ ~ (c.ext.size > 0)
    BY <1>2, <1>3, <2>1, SMT
  <2> QED BY <1>1, <1>3, <2>2 DEF c, q
<1>5. CASE q.at # NULL
  <2>1. End(q) # at
    BY <1>1
  <2>2. g.ext.size =< q.size /\ (g.ext.size > 0 => End(g.ext) = End(q))
    BY <1>1, <1>5, <2>1, HCHistoryIs, ZenonT(60)
  <2> QED BY <1>1, <1>2, <1>3, <2>2
<1> QED BY <1>4, <1>5

\* One full page after another.
LEMMA TurningNext ==
  ASSUME Mode, PairShape, Laden, AllFull, NEW m, Turning(m), Compressed(PageSize), wire' # NoBlock
  PROVE  Turning(PageSize)'
<1> DEFINE src == enc.page * PageSize
           q == Latest(enc.hist)
           f == Latest(EncoderContinue(src, PageSize))
           D == DictAt(PageSize)
<1>0. /\ PageSize \in Nat /\ PageSize > 0 /\ conf.dict \in Nat /\ src \in Nat /\ Kind
      /\ q.size \in Nat /\ q.at \in Int /\ End(q) = q.at + q.size /\ D \in Nat /\ D = 2 * PageSize + 1
  BY Sizes, LatestParts, SMTT(60) DEF DictAt, Laden, Kind
<1>1. /\ Latest(enc.hist)' = f /\ enc'.page = OtherPage(enc.page) /\ enc'.hist = EncoderContinue(src, PageSize)
      /\ given' = given + PageSize /\ conf' = conf /\ dec' = dec /\ DecPageSize' = DecPageSize
  BY DEF Compressed, Latest, DecPageSize
<1>2. /\ (End(q) # src => f = Seg(src, PageSize))
      /\ (End(q) = src /\ q.size > 0 /\ q.at # NULL) => f = Seg(q.at, q.size + PageSize)
  <2> HIDE DEF src
  <2> QED BY <1>0, LatestNext
<1>3. OtherPage(0) = 1 /\ OtherPage(1) = 0
  BY SMT DEF OtherPage
<1>4. CASE /\ enc.page = 0 /\ given = conf.dict
           /\ End(q) # 0 /\ (q.size > 0 => End(q) = D + conf.dict) /\ q.size =< conf.dict
           /\ dec.hist.prefix = Seg(DictAt(DecPageSize), conf.dict)
  <2>1. src = 0
    BY <1>0, <1>4, PageOf
  <2>2. f = Seg(0, PageSize)
    BY <1>2, <1>4, <2>1
  <2>3. Behind'
    BY <1>1, <1>4 DEF Behind
  <2>4. conf.mode = "hc" => Leftover'
    <3> HAVE conf.mode = "hc"
    <3> DEFINE e == EncoderContinue(src, PageSize).ext
    <3>1. e.size =< q.size /\ e.size \in Nat /\ (e.size > 0 => End(e) = End(q))
      <4> HIDE DEF src
      <4> QED BY <1>0, <1>4, <2>1, LeftoverNext
    <3>2. enc'.hist.ext = e
      BY <1>1
    <3> HIDE DEF e, q, D
    <3>3. e.size = 0 \/ (End(e) = D + conf.dict /\ e.size =< conf.dict)
      BY <1>0, <1>4, <3>1, SMT
    <3> QED BY <1>1, <2>3, <3>2, <3>3 DEF Leftover, D
  <2> QED BY <1>1, <1>3, <1>4, <2>2, <2>4 DEF Turning
<1>5. CASE enc.page = 0 /\ q = Seg(0, 2 * PageSize)
  <2>1. src = 0
    BY <1>0, <1>5, PageOf
  <2>2. q.at = 0 /\ q.size = 2 * PageSize
    BY <1>5 DEF Seg
  <2>3. End(q) = 2 * PageSize /\ End(q) # 0
    <3> HIDE DEF q
    <3> QED BY <1>0, <2>2, SMT
  <2>4. f = Seg(0, PageSize)
    BY <1>2, <2>1, <2>3
  <2>5. conf.mode = "hc" => Leftover'
    <3> HAVE conf.mode = "hc"
    <3> DEFINE e == EncoderContinue(src, PageSize).ext
    <3>1. e.size \in Nat /\ (e.size > 0 => End(e) = End(q))
      <4> HIDE DEF src
      <4> QED BY <1>0, <2>1, <2>3, LeftoverNext
    <3>2. enc'.hist.ext = e
      BY <1>1
    <3> HIDE DEF e, q, D
    <3>3. e.size = 0 \/ End(e) = 2 * PageSize
      BY <2>3, <3>1, SMT
    <3> QED BY <1>1, <3>2, <3>3 DEF Leftover
  <2> QED BY <1>1, <1>3, <1>5, <2>4, <2>5 DEF Turning
<1>6. CASE enc.page = 1 /\ q = Seg(0, PageSize)
  <2>1. src = PageSize
    BY <1>0, <1>6, PageOf
  <2>2. q.at = 0 /\ q.size = PageSize
    BY <1>6 DEF Seg
  <2>3. End(q) = PageSize /\ q.size > 0 /\ q.at # NULL /\ PageSize + PageSize = 2 * PageSize
    <3> HIDE DEF q
    <3> QED BY <1>0, <2>2, SMT DEF NULL
  <2>4. f = Seg(0, 2 * PageSize)
    BY <1>2, <2>1, <2>2, <2>3
  <2> QED BY <1>1, <1>3, <1>6, <2>4 DEF Turning
<1> QED BY <1>4, <1>5, <1>6 DEF Turning

\* A block leaves the compressor with what it saw.
LEMMA CompressKeepsView ==
  ASSUME Mode, PairShape, Regular(conf), Uncut, NEW m \in Nat, InView(m),
         NEW n \in 0 .. PageSize, n =< conf.decPage, NEW csize \in {1, largest_block(n)}, Compress(n, csize)
  PROVE  InView(n)'
<1> DEFINE src == enc.page * PageSize
           dest == dec.page * DecPageSize
           mem == Written(enc.mem, src, n, given)
           h == EncoderHistory(src, n)
           g == DecodeHistory(dec.hist, dest)
<1>0. n \in Nat /\ src \in Nat /\ given \in Nat
  BY Sizes, SMT
<1>1. /\ wire = NoBlock /\ n \in conf.sizes /\ Compressed(n) /\ wire' = Block(mem, src, n, csize)
      /\ dec' = dec /\ conf' = conf /\ given' = given + n /\ DecPageSize' = DecPageSize
  BY DEF Compress, Compressed, DecPageSize
<1>2. Laden /\ Kind /\ dec.hist \in Histories /\ EncoderHas(m) /\ DecoderHas(m) /\ (AllFull => Turning(m))
  BY <1>1 DEF InView, Laden, Kind
<1>3. wire' # NoBlock /\ wire'.n = n /\ wire'.from = given
  BY <1>0, <1>1, BlockIs
<1>4. wire'.seen = [k \in 1 .. Reach(h) |-> mem[Back(h, k)]]
  BY <1>1 DEF Block
<1>5. Laden'
  BY <1>1, <1>2, LadenNext
<1>6. EncoderHas(n)'
  BY <1>1, <1>2, EncoderNext
<1>7. AllFull' => Turning(n)'
  <2>1. SUFFICES ASSUME AllFull PROVE Turning(n)'
    BY <1>1 DEF AllFull
  <2>2. n = PageSize
    BY <1>1, <2>1 DEF AllFull
  <2> QED BY <1>1, <1>2, <1>3, <2>1, <2>2, TurningNext
<1>8. Reach(h) \in Int
  <2> HIDE DEF src
  <2>1. h \in Histories
    BY <1>0, <1>2, LatestSeen
  <2> QED BY <2>1, ReachIs
<1>9. ASSUME NEW k \in 1 .. Reach(h), k =< DecoderReach(g)
      PROVE  /\ mem[Back(h, k)] = given - k
             /\ Back(g, k) \in DOMAIN dec.mem /\ Back(g, k) \notin dest .. dest + (DecPageSize - 1)
             /\ dec.mem[Back(g, k)] = given - k
  <2>1. Alike(n, k)
    <3>1. CASE k =< m
      BY <1>0, <1>2, <3>1, NearAlike
    <3>2. CASE k > m
      BY <1>0, <1>1, <1>2, <1>9, <3>2, FarAlike
    <3>3. k =< m \/ k > m
      <4> HIDE DEF h
      <4> QED BY <1>8, SMT
    <3> QED BY <3>1, <3>2, <3>3
  <2>2. /\ Back(h, k) \in DOMAIN enc.mem /\ Back(h, k) \notin src .. src + (PageSize - 1)
        /\ enc.mem[Back(h, k)] = given - k
        /\ Back(g, k) \in DOMAIN dec.mem /\ Back(g, k) \notin dest .. dest + (DecPageSize - 1)
        /\ dec.mem[Back(g, k)] = given - k
    BY <2>1 DEF Alike
  <2>3. PageSize \in Nat
    BY Sizes
  <2> HIDE DEF src, dest, h, g
  <2>4. Back(h, k) \notin src .. src + (n - 1)
    BY <1>0, <2>2, <2>3, SMT
  <2>5. mem[Back(h, k)] = enc.mem[Back(h, k)]
    BY <2>2, <2>4 DEF Written
  <2> QED BY <2>2, <2>5
<1>10. Roomier => End(dec.hist.prefix) # dest
  BY <1>2 DEF DecoderHas
<1>11. Roomier' = Roomier /\ dec'.page * DecPageSize' = dest /\ DecodeHistory(dec'.hist, dest) = g
  BY <1>1 DEF Roomier
<1> HIDE DEF src, dest, mem, h, g
<1>12. BlockRight'
  <2>1. DOMAIN wire'.seen = 1 .. Reach(h) /\ \A k \in 1 .. Reach(h) : wire'.seen[k] = mem[Back(h, k)]
    BY <1>4
  <2> QED BY <1>1, <1>3, <1>9, <1>10, <1>11, <2>1 DEF BlockRight
<1> QED BY <1>0, <1>1, <1>3, <1>5, <1>6, <1>7, <1>12 DEF InView

\* A block that says what the decoder finds is decoded right.
LEMMA NothingMiscopied ==
  ASSUME PairShape, wire # NoBlock, wire.n =< DecPageSize, BlockRight, Laden, NEW wild \in Nat
  PROVE  LET dest == dec.page * DecPageSize
         IN  ~ CanMiscopy(wire, DecodeHistory(dec.hist, dest), dest, wild)
<1> DEFINE dest == dec.page * DecPageSize
           g == DecodeHistory(dec.hist, dest)
<1> SUFFICES ASSUME NEW c \in Copied(wire), c.k =< DecoderReach(g),
                    Reads(wire, dest, wild, c.op, Back(g, c.k)) # wire.seen[c.k]
             PROVE  FALSE
  BY DEF CanMiscopy
<1> DEFINE a == Back(g, c.k)
<1>1. c.k \in DOMAIN wire.seen /\ c.op \in 0 .. wire.n - MFLimit
  BY DEF Copied
<1>2. /\ wire.seen[c.k] = wire.from - c.k /\ a \in DOMAIN dec.mem
      /\ a \notin dest .. dest + (DecPageSize - 1) /\ dec.mem[a] = wire.from - c.k
  BY <1>1 DEF BlockRight
<1>3. MFLimit \in Nat /\ DecPageSize \in Nat /\ dest \in Nat /\ wire.n \in Nat /\ PageSize \in Nat
  <2>1. wire.n \in 0 .. PageSize
    BY DEF PairShape
  <2> QED BY <2>1, Sizes, PairAssumption, SMT
<1> DEFINE op == c.op
<1>4. op \in Nat /\ op =< DecPageSize
  <2> HIDE DEF op
  <2>1. op \in 0 .. wire.n - MFLimit
    BY <1>1 DEF op
  <2> QED BY <1>3, <2>1, SMT
<1> HIDE DEF a, dest, g, op
<1>5. Lesser(op + wild, DecPageSize) =< DecPageSize /\ Lesser(op + wild, DecPageSize) \in Nat
  BY <1>3, <1>4, SMT DEF Lesser
<1>6. a \notin dest .. dest + (op - 1) /\ a \notin dest + op .. dest + (Lesser(op + wild, DecPageSize) - 1)
  BY <1>2, <1>3, <1>4, <1>5, SMT
<1>7. Reads(wire, dest, wild, op, a) = dec.mem[a]
  BY <1>6 DEF Reads
<1> QED BY <1>2, <1>7 DEF a, op, g, dest

\* And its bytes are what the decoder has next.
LEMMA DecompressKeepsView ==
  ASSUME Mode, PairShape, Regular(conf), NEW m \in Nat, InView(m), Kept,
         NEW wild \in Nat, NEW kept \in BOOLEAN, Decompress(wild, kept)
  PROVE  got' # "wrong" /\ InView(m)'
<1> DEFINE dest == dec.page * DecPageSize
           p == dec.hist.prefix
           c == DecodeContinue(dec.hist, dest, m)
           mem == Decoded(wire, dest, wild)
           next == OtherPage(dec.page) * DecPageSize
           D == DictAt(DecPageSize)
<1>1. /\ wire # NoBlock /\ wire.n =< DecPageSize /\ wire' = NoBlock
      /\ dec'.mem = mem /\ dec'.hist = DecodeContinue(dec.hist, dest, wire.n) /\ dec'.page = OtherPage(dec.page)
      /\ conf' = conf /\ given' = given /\ enc' = enc /\ DecPageSize' = DecPageSize
  BY DEF Decompress, Turned, DecPageSize
<1>2. /\ Laden /\ EncoderHas(m) /\ (AllFull => Turning(m))
      /\ m = wire.n /\ m \in conf.sizes /\ wire.from \in Nat /\ wire.from + m = given /\ BlockRight
  BY <1>1 DEF InView
<1>3. got' # "wrong"
  <2>1. ~ CanMiscopy(wire, DecodeHistory(dec.hist, dest), dest, wild)
    BY <1>1, <1>2, NothingMiscopied
  <2> QED BY <2>1 DEF Decompress
<1>4. /\ DecPageSize \in Nat /\ PageSize \in Nat /\ PageSize > 0 /\ conf.dict \in Nat /\ dest \in Nat
      /\ dest =< DecPageSize /\ D \in Nat /\ D = 2 * DecPageSize + 1 /\ dec.page \in {0, 1} /\ m \in Int
  BY Sizes, SMT DEF DictAt, PairShape
<1>5. /\ dec.hist \in Histories
      /\ DOMAIN enc.mem = 0 .. DictAt(PageSize) + (conf.dict - 1)
      /\ DOMAIN dec.mem = 0 .. D + (conf.dict - 1)
      /\ \A i \in 0 .. conf.dict - 1 : enc.mem[DictAt(PageSize) + i] = i /\ dec.mem[D + i] = i
  BY <1>2 DEF Laden
<1>6. p \in Segments /\ p.size \in Nat /\ End(p) \in Int
  BY <1>5, HistoryParts, SegmentParts
<1>7. /\ DOMAIN mem = DOMAIN dec.mem
      /\ \A a \in DOMAIN dec.mem : a \notin dest .. dest + (DecPageSize - 1) => mem[a] = dec.mem[a]
      /\ \A k \in 1 .. m : dest + m - k \in DOMAIN dec.mem => mem[dest + m - k] = wire.from + m - k
  <2>1. wire.n \in Nat /\ wire.from \in Int
    BY <1>2, SMT
  <2> HIDE DEF dest
  <2>2. LET v == Decoded(wire, dest, wild)
        IN  /\ DOMAIN v = DOMAIN dec.mem
            /\ \A a \in DOMAIN dec.mem : a \notin dest .. dest + (DecPageSize - 1) => v[a] = dec.mem[a]
            /\ \A k \in 1 .. wire.n : dest + wire.n - k \in DOMAIN dec.mem =>
                 v[dest + wire.n - k] = wire.from + wire.n - k
    BY <1>1, <1>4, <2>1, DecodedIs
  <2> QED BY <1>2, <2>2
<1>8. /\ m > 0 /\ p.size > 0 /\ End(p) = dest =>
           c.prefix.size = p.size + m /\ End(c.prefix) = dest + m /\ c.ext = dec.hist.ext
      /\ m > 0 /\ ~ (p.size > 0 /\ End(p) = dest) =>
           /\ c.prefix.size = m /\ End(c.prefix) = dest + m
           /\ c.ext.size = p.size /\ (p.size > 0 => c.ext = p)
      /\ c \in Histories /\ c.prefix.size \in Nat
  <2> HIDE DEF dest
  <2>1. dest \in Nat /\ m \in Nat /\ dec.hist \in Histories
    BY <1>4, <1>5
  <2> HIDE DEF p, c
  <2>2. LET d == dec.hist
            e == DecodeContinue(d, dest, m)
        IN  /\ m > 0 /\ d.prefix.size > 0 /\ End(d.prefix) = dest =>
                 e.prefix.size = d.prefix.size + m /\ End(e.prefix) = dest + m /\ e.ext = d.ext
            /\ m > 0 /\ ~ (d.prefix.size > 0 /\ End(d.prefix) = dest) =>
                 /\ e.prefix.size = m /\ End(e.prefix) = dest + m
                 /\ e.ext.size = d.prefix.size /\ (d.prefix.size > 0 => e.ext = d.prefix)
            /\ m = 0 => e.prefix = d.prefix
            /\ m = 0 /\ d.prefix.size > 0 /\ End(d.prefix) = dest => e.ext = d.ext
            /\ e \in Histories /\ e.prefix.size \in Nat /\ e.ext.size \in Nat
    BY <2>1, DecoderMoves, ZenonT(60)
  <2> QED BY <2>2 DEF p, c
<1>9. dec'.hist = c
  BY <1>1, <1>2
<1>10. Laden'
  <2>1. ASSUME NEW i \in 0 .. conf.dict - 1 PROVE mem[D + i] = i
    <3> HIDE DEF D, dest, mem
    <3>1. D + i \in 0 .. D + (conf.dict - 1) /\ D + i \notin dest .. dest + (DecPageSize - 1)
      BY <1>4, SMT
    <3> QED BY <1>5, <1>7, <3>1
  <2> HIDE DEF mem, c
  <2> QED BY <1>1, <1>2, <1>5, <1>7, <1>8, <1>9, <2>1 DEF Laden, D
<1>11. EncoderHas(m)'
  BY <1>1, <1>2 DEF EncoderHas, Latest, NotFull
<1>12. DecoderHas(m)'
  <2>1. c.prefix.size >= m
    <3> HIDE DEF c, p
    <3> QED BY <1>4, <1>6, <1>8, SMT
  <2>2. ASSUME NEW k \in 1 .. m
        PROVE  /\ End(c.prefix) - k \in DOMAIN mem /\ End(c.prefix) - k \notin next .. next + (DecPageSize - 1)
               /\ mem[End(c.prefix) - k] = given - k
    <3>1. dest + m - k \in dest .. dest + (DecPageSize - 1)
      <4> HIDE DEF dest
      <4> QED BY <1>1, <1>2, <1>4, SMT
    <3>2. dest + m - k \in 0 .. 2 * DecPageSize - 1 /\ dest + m - k \notin next .. next + (DecPageSize - 1)
      BY <1>4, <3>1, OtherPageApart
    <3> HIDE DEF dest, next, c, p, D, mem
    <3>3. m > 0 /\ End(c.prefix) = dest + m
      BY <1>4, <1>6, <1>8, SMT
    <3>4. End(c.prefix) - k = dest + m - k /\ given - k = wire.from + m - k
      BY <1>2, <1>4, <3>3, SMT
    <3>5. dest + m - k \in DOMAIN dec.mem
      BY <1>4, <1>5, <3>2, SMT
    <3> QED BY <1>7, <3>2, <3>4, <3>5
  <2>3. ASSUME Roomier PROVE c.prefix.size = m /\ End(c.prefix) # next
    <3>1. m # 0 /\ m > 0 /\ m < DecPageSize
      <4>1. m # 0 /\ m \in 0 .. PageSize /\ PageSize < DecPageSize
        BY <1>1, <1>2, <2>3, ConfIs DEF Roomier, PairShape, DecPageSize
      <4> QED BY <1>4, <4>1, SMT
    <3>2. End(p) # dest
      BY <1>2, <2>3 DEF BlockRight
    <3>3. (dest = 0 /\ next = DecPageSize) \/ (dest = DecPageSize /\ next = 0)
      <4>1. (dec.page = 0 /\ OtherPage(dec.page) = 1) \/ (dec.page = 1 /\ OtherPage(dec.page) = 0)
        BY <1>4, SMT DEF OtherPage
      <4> QED BY <1>4, <4>1, PageOf
    <3> HIDE DEF dest, next, c, p
    <3>4. c.prefix.size = m /\ End(c.prefix) = dest + m
      BY <1>8, <3>1, <3>2
    <3>5. dest + m # next
      BY <1>4, <3>1, <3>3, SMT
    <3> QED BY <3>4, <3>5
  <2>4. Roomier' = Roomier /\ dec'.page * DecPageSize' = next
    BY <1>1 DEF Roomier
  <2> HIDE DEF c, mem, next
  <2> QED BY <1>1, <1>9, <2>1, <2>2, <2>3, <2>4 DEF DecoderHas
<1>13. AllFull' => Turning(m)'
  <2> SUFFICES ASSUME AllFull PROVE Turning(m)'
    BY <1>1 DEF AllFull
  <2> DEFINE q == Latest(enc.hist)
  <2>0. Latest(enc.hist)' = q
    BY <1>1 DEF Latest
  <2>1. \/ enc.page = 0 /\ q = Seg(0, 2 * PageSize) /\ m = PageSize
        \/ enc.page = 1 /\ q = Seg(0, PageSize) /\ m = PageSize /\ (conf.mode = "hc" => Leftover)
    BY <1>1, <1>2 DEF Turning
  <2>2. CASE enc.page = 0 /\ q = Seg(0, 2 * PageSize) /\ m = PageSize
    BY <1>1, <2>0, <2>2 DEF Turning
  <2>3. CASE enc.page = 1 /\ q = Seg(0, PageSize) /\ m = PageSize /\ (conf.mode = "hc" => Leftover)
    <3>1. ASSUME conf.mode = "hc" PROVE Leftover'
      <4> DEFINE x == enc.hist.ext
      <4>1. x.size = 0 \/ End(x) = 2 * PageSize
              \/ (End(x) = DictAt(PageSize) + conf.dict /\ x.size =< conf.dict /\ Behind)
        BY <2>3, <3>1 DEF Leftover
      <4>2. CASE x.size = 0 \/ End(x) = 2 * PageSize
        BY <1>1, <4>2 DEF Leftover
      <4>3. CASE End(x) = DictAt(PageSize) + conf.dict /\ x.size =< conf.dict /\ Behind
        <5>1. given = conf.dict + PageSize /\ p = Seg(D, conf.dict)
          BY <1>1, <4>3 DEF Behind
        <5>2. p.size = conf.dict /\ End(p) = D + conf.dict
          <6>1. D \in Int
            BY <1>4, SMT
          <6> HIDE DEF D, p
          <6>2. LET s == Seg(D, conf.dict) IN s.size = conf.dict /\ End(s) = D + conf.dict
            BY <1>4, <6>1, SegOf
          <6> QED BY <5>1, <6>2
        <5>3. dest = 0
          <6>1. dec.page = 0
            BY <1>1, <1>4, <2>3, SMT DEF PairShape, Uncut, OtherPage
          <6> QED BY <1>4, <6>1, PageOf
        <5> HIDE DEF dest, c, D, p
        <5>4. m > 0 /\ End(p) # dest /\ dest + m = PageSize
          BY <1>4, <2>3, <5>2, <5>3, SMT
        <5>5. /\ c.prefix.size = PageSize /\ End(c.prefix) = PageSize
              /\ c.ext.size = p.size /\ (p.size > 0 => c.ext = p)
          BY <1>8, <2>3, <5>4
        <5>6. CASE conf.dict = 0
          <6>1. x.size \in Nat
            BY <1>2, <3>1, HistoryParts, SegmentParts DEF Laden
          <6> HIDE DEF x
          <6>2. x.size = 0
            BY <4>3, <5>6, <6>1, SMT
          <6> QED BY <1>1, <6>2 DEF Leftover, x
        <5>7. CASE conf.dict > 0
          <6>1. c.ext = Seg(D, conf.dict)
            BY <5>1, <5>2, <5>5, <5>7
          <6>2. Behind'
            BY <1>1, <1>9, <5>1, <5>5, <6>1 DEF Behind, D
          <6> QED BY <1>1, <4>3, <6>2 DEF Leftover
        <5> QED BY <1>4, <5>6, <5>7, SMT
      <4> QED BY <4>1, <4>2, <4>3
    <3> QED BY <1>1, <2>0, <2>3, <3>1 DEF Turning
  <2> QED BY <2>1, <2>2, <2>3
<1> QED BY <1>1, <1>3, <1>10, <1>11, <1>12, <1>13 DEF InView

\* The encoder of a new stream has the end of the dictionary, or nothing.
LEMMA EncoderNewIs ==
  ASSUME PairInit
  PROVE  LET q == Latest(enc.hist)
         IN  /\ Kind /\ q.size \in Nat /\ q.size =< conf.dict /\ End(q) \in Int /\ End(q) # 0
             /\ q.size > 0 => End(q) = DictAt(PageSize) + conf.dict
<1> DEFINE q == Latest(enc.hist)
           D == DictAt(PageSize)
           end == D + conf.dict
           kept == Lesser(conf.dict, KB64)
           s == LastBytes(end, kept)
<1>0. conf.mode \in {"fast", "hc"} /\ conf.dict \in Nat /\ PageSize \in Nat /\ PageSize > 0
      /\ enc.hist = EncoderNew(conf.mode, conf.dict)
  <2>1. conf \in Streams /\ enc.hist = EncoderNew(conf.mode, conf.dict)
    BY DEF PairInit
  <2> QED BY <2>1, ConfIs, PageIsNat, SMT
<1>1. D \in Nat /\ D > 0
  BY <1>0, SMT DEF DictAt
<1> HIDE DEF D
<1>2. end \in Int /\ end > 0 /\ kept \in Nat /\ kept =< conf.dict
  BY <1>0, <1>1, StreamingAssumption, SMT DEF Lesser
<1>3. s \in Segments /\ End(s) = end /\ s.size = kept
  <2> HIDE DEF end, kept
  <2> QED BY <1>2, LastBytesOf
<1>4. NULL \in Int /\ NULL # 0
  BY SMT DEF NULL
<1>5. None(NULL) \in Segments /\ None(NULL).size = 0 /\ End(None(NULL)) = NULL
  BY <1>4, NoneOf
<1>6. Kind /\ (q = None(NULL) \/ q = s)
  <2>1. CASE conf.mode = "fast"
    <3>1. enc.hist = None(NULL) \/ enc.hist = s
      BY <1>0, <2>1 DEF EncoderNew, FastNew, FastLoad, s, kept, end, D
    <3> HIDE DEF s
    <3> QED BY <1>3, <1>5, <2>1, <3>1 DEF Kind, Latest
  <2>2. CASE conf.mode = "hc"
    <3>1. enc.hist = History(None(NULL), None(NULL)) \/ enc.hist = History(s, None(D))
      BY <1>0, <2>2 DEF EncoderNew, HCNew, HCLoad, s, kept, end, D
    <3>2. None(D) \in Segments
      BY <1>1, NoneOf, SMT
    <3> HIDE DEF s
    <3>3. enc.hist \in Histories /\ (enc.hist.prefix = None(NULL) \/ enc.hist.prefix = s)
      BY <1>3, <1>5, <3>1, <3>2, HistoryOf
    <3> QED BY <2>2, <3>3 DEF Kind, Latest
  <2> QED BY <1>0, <2>1, <2>2
<1> HIDE DEF q, s
<1>7. CASE q = None(NULL)
  <2>1. q.size = 0 /\ End(q) = NULL
    BY <1>5, <1>7
  <2>2. 0 \in Nat /\ 0 =< conf.dict /\ ~ (0 > 0)
    BY <1>0, SMT
  <2> QED BY <1>4, <1>6, <2>1, <2>2 DEF q
<1>8. CASE q = s
  <2>1. q.size = kept /\ End(q) = end
    BY <1>3, <1>8
  <2> HIDE DEF kept, end
  <2>2. end # 0
    BY <1>2, SMT
  <2> QED BY <1>2, <1>6, <2>1, <2>2 DEF q, end, D
<1> QED BY <1>6, <1>7, <1>8

LEMMA MemoryIs ==
  ASSUME NEW size \in Nat, NEW dict \in Nat
  PROVE  /\ DOMAIN Memory(size, dict) = 0 .. DictAt(size) + (dict - 1)
         /\ \A i \in 0 .. dict - 1 : Memory(size, dict)[DictAt(size) + i] = i
<1>1. DictAt(size) \in Nat
  BY SMT DEF DictAt
<1>2. ASSUME NEW i \in 0 .. dict - 1 PROVE Memory(size, dict)[DictAt(size) + i] = i
  <2> DEFINE D == DictAt(size)
  <2>1. D + i \in 0 .. D + (dict - 1) /\ ~ (D + i < D) /\ (D + i) - D = i
    BY <1>1, SMT
  <2> QED BY <2>1 DEF Memory
<1> QED BY <1>2 DEF Memory

LEMMA StillRightInit == PairInit => StillRight
<1> SUFFICES ASSUME PairInit PROVE StillRight
  OBVIOUS
<1> DEFINE q == Latest(enc.hist)
           p == dec.hist.prefix
           N == conf.dict
           D == DictAt(PageSize)
           B == DictAt(DecPageSize)
<1>1. /\ conf \in Streams /\ given = N /\ wire = NoBlock /\ got = "nothing" /\ enc.page = 0 /\ dec.page = 0
      /\ enc.mem = Memory(PageSize, N) /\ dec.mem = Memory(DecPageSize, N) /\ dec.hist = DecodeSet(B, N)
  BY DEF PairInit
<1>2. N \in Nat /\ PageSize \in Nat /\ PageSize > 0 /\ DecPageSize \in Nat
  BY <1>1, ConfIs, PageIsNat, SMT DEF DecPageSize
<1>3. 0 * PageSize = 0 /\ 0 * DecPageSize = 0
  BY <1>2, SMT
<1>4. D \in Nat /\ D = 2 * PageSize + 1 /\ B \in Nat /\ B = 2 * DecPageSize + 1
  BY <1>2, SMT DEF DictAt
<1>5. /\ DOMAIN enc.mem = 0 .. D + (N - 1) /\ DOMAIN dec.mem = 0 .. B + (N - 1)
      /\ \A i \in 0 .. N - 1 : enc.mem[D + i] = i /\ dec.mem[B + i] = i
  BY <1>1, <1>2, MemoryIs
<1>6. /\ Kind /\ q.size \in Nat /\ q.size =< N /\ End(q) \in Int /\ End(q) # 0
      /\ q.size > 0 => End(q) = D + N
  BY EncoderNewIs
<1>7. dec.hist \in Histories /\ p = Seg(B, N) /\ p.size = N /\ End(p) = B + N
  <2>1. B \in Int /\ NULL \in Int
    BY <1>4, SMT DEF NULL
  <2> HIDE DEF B, N, p
  <2>2. LET s == Seg(B, N) IN s \in Segments /\ s.size = N /\ End(s) = B + N
    BY <1>2, <2>1, SegOf
  <2>3. None(NULL) \in Segments
    BY <2>1, NoneOf
  <2>4. dec.hist \in Histories /\ dec.hist.prefix = Seg(B, N)
    BY <1>1, <2>2, <2>3, HistoryOf DEF DecodeSet
  <2> QED BY <2>2, <2>4 DEF p
<1>8. Laden
  BY <1>5, <1>6, <1>7 DEF Laden, Kind
<1> HIDE DEF q, p, N, D, B
<1>9. ASSUME NEW k \in 1 .. N
      PROVE  /\ (D + N) - k \in 0 .. D + (N - 1) /\ (D + N) - k \notin 0 .. 0 + (PageSize - 1)
             /\ enc.mem[(D + N) - k] = N - k
             /\ (B + N) - k \in 0 .. B + (N - 1) /\ (B + N) - k \notin 0 .. 0 + (DecPageSize - 1)
             /\ dec.mem[(B + N) - k] = N - k
  <2> DEFINE i == N - k
  <2>1. /\ i \in 0 .. N - 1 /\ (D + N) - k = D + i /\ (B + N) - k = B + i
        /\ D + i \in 0 .. D + (N - 1) /\ D + i \notin 0 .. 0 + (PageSize - 1)
        /\ B + i \in 0 .. B + (N - 1) /\ B + i \notin 0 .. 0 + (DecPageSize - 1)
    BY <1>2, <1>4, SMT
  <2> HIDE DEF i
  <2>2. enc.mem[D + i] = i /\ dec.mem[B + i] = i
    BY <1>5, <2>1
  <2> QED BY <2>1, <2>2 DEF i
<1>10. EncoderHas(N)
  <2>1. ASSUME NEW k \in 1 .. N, k =< q.size PROVE End(q) = D + N
    BY <1>2, <1>6, <2>1, SMT
  <2>2. enc.page * PageSize = 0 /\ given = N
    BY <1>1, <1>3
  <2> QED BY <1>5, <1>6, <1>9, <2>1, <2>2 DEF EncoderHas, q
<1>11. DecoderHas(N)
  <2>1. dec.page * DecPageSize = 0 /\ given = N
    BY <1>1, <1>3
  <2>2. B + N # 0 /\ N >= N
    BY <1>2, <1>4, SMT
  <2> QED BY <1>5, <1>7, <1>9, <2>1, <2>2 DEF DecoderHas, p
<1>12. Turning(N)
  BY <1>1, <1>6, <1>7 DEF Turning, q, p, N, D, B
<1>13. InView(N)
  BY <1>1, <1>8, <1>10, <1>11, <1>12 DEF InView
<1> QED BY <1>1, <1>2, <1>13 DEF StillRight

LEMMA StillRightStep == PairShape /\ StillRight /\ [PairNext]_pairVars => StillRight'
<1> SUFFICES ASSUME PairShape, StillRight, [PairNext]_pairVars, Kept', Regular(conf)', Uncut',
                    wire' # NoBlock => wire'.n =< conf'.decPage
             PROVE  got' # "wrong" /\ \E m \in Nat : InView(m)'
  BY DEF StillRight
<1>0. conf' = conf
  BY DEF PairNext, pairVars, Compress, CompressLost, Decompress, DecompressFails, Refuse, FreeDict
<1>1. Kept /\ Regular(conf) /\ Mode
  BY <1>0, ConfIs DEF PairShape, Kept, Mode
<1>2. ASSUME NEW n \in 0 .. PageSize, NEW csize \in {1, largest_block(n)}, Compress(n, csize)
      PROVE  got' # "wrong" /\ \E m \in Nat : InView(m)'
  <2>1. n \in Nat
    BY PageIsNat, SMT
  <2>2. /\ wire = NoBlock /\ got \in {"nothing", "exact", "lost"} /\ got' = got
        /\ wire' = Block(Written(enc.mem, enc.page * PageSize, n, given), enc.page * PageSize, n, csize)
    BY <1>2 DEF Compress
  <2>3. wire' # NoBlock /\ wire'.n = n
    BY <2>1, <2>2, BlockIs
  <2>4. n =< conf.decPage
    BY <1>0, <2>3
  <2>5. Uncut
    BY <2>2 DEF Uncut
  <2>6. PICK m \in Nat : InView(m)
    BY <1>1, <2>2, <2>5 DEF StillRight
  <2>7. InView(n)'
    BY <1>1, <1>2, <2>4, <2>5, <2>6, CompressKeepsView
  <2> QED BY <2>1, <2>2, <2>7
<1>3. ASSUME NEW n \in 0 .. PageSize, CompressLost(n)
      PROVE  FALSE
  BY <1>1, <1>3 DEF CompressLost, Kept
<1>4. ASSUME NEW wild \in {0, Wild}, NEW kept \in BOOLEAN, Decompress(wild, kept)
      PROVE  got' # "wrong" /\ \E m \in Nat : InView(m)'
  <2>1. wire # NoBlock /\ wire.n =< conf.decPage
    BY <1>4 DEF Decompress, DecPageSize
  <2>2. Uncut
    BY <2>1 DEF PairShape, Uncut
  <2>3. PICK m \in Nat : InView(m)
    BY <1>1, <2>1, <2>2 DEF StillRight
  <2>4. wild \in Nat
    BY PairAssumption, SMT
  <2> QED BY <1>1, <1>4, <2>3, <2>4, DecompressKeepsView
<1>5. CASE DecompressFails
  BY <1>5 DEF DecompressFails, Uncut
<1>6. CASE Refuse
  BY <1>6 DEF Refuse, Uncut
<1>7. CASE FreeDict
  BY <1>1, <1>7 DEF FreeDict, Kept
<1>8. CASE UNCHANGED pairVars
  <2>1. /\ conf' = conf /\ given' = given /\ enc' = enc /\ dec' = dec /\ wire' = wire /\ got' = got
    BY <1>8 DEF pairVars
  <2>2. PICK m \in Nat : InView(m) /\ got # "wrong"
    BY <1>1, <2>1 DEF StillRight, Uncut
  <2>3. InView(m)'
    BY <2>1, <2>2 DEF InView, Laden, EncoderHas, DecoderHas, BlockRight, Turning, Leftover, Behind, Latest,
                      NotFull, Roomier, AllFull, DecPageSize
  <2> QED BY <2>1, <2>2, <2>3
<1> QED BY <1>2, <1>3, <1>4, <1>5, <1>6, <1>7, <1>8 DEF PairNext

\* What a compressor was given comes out of the decompressor, byte for byte, in
\* every stream of a regular shape, whatever matches the encoder has found.
THEOREM RegularDelivered == PairSpec => [](Regular(conf) => Delivered)
<1>1. PairInit => PairShape /\ StillRight
  BY PairShapeInit, StillRightInit
<1>2. PairShape /\ StillRight /\ [PairNext]_pairVars => (PairShape /\ StillRight)'
  BY PairShapeStep, StillRightStep
<1>3. PairShape /\ StillRight => (Regular(conf) => Delivered)
  BY DEF PairShape, StillRight, Delivered, Uncut
<1> QED BY <1>1, <1>2, <1>3, PTL DEF PairSpec
=============================================================================
