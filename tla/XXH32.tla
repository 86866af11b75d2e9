-------------------------------- MODULE XXH32 --------------------------------
(***************************************************************************)
(* XXH32 as a stream: which bytes go through the four lanes, a stripe at a *)
(* time, and which are left for the finalization.  The arithmetic on them  *)
(* is a function of these and is left out.                                 *)
(***************************************************************************)
EXTENDS Integers, Sequences

CONSTANT Stripe   \* bytes the lanes take at a time: 16

ASSUME StripeAssumption == Stripe \in Nat \ {0}

\* lanes: the bytes that went through v1 .. v4; mem: the first memsize bytes of
\* mem32; total: total_len_32; large: large_len.
XXH32_reset == [lanes |-> << >>, mem |-> << >>, total |-> 0, large |-> FALSE]

Front(s, n)  == SubSeq(s, 1, n)
Behind(s, n) == SubSeq(s, n + 1, Len(s))

\* What the loops over whole stripes take of n bytes.
Whole(n) == n - (n % Stripe)

\* Mutant: a buffer that becomes full waits for the next call.
XXXH32_update(state, input) ==
  LET counted == [state EXCEPT !.total = @ + Len(input), !.large = @ \/ Len(input) >= Stripe \/ state.total + Len(input) >= Stripe]
      used == IF state.mem = << >> THEN 0 ELSE Stripe - Len(state.mem)
      rest == Behind(input, used)
  IN  IF Len(state.mem) + Len(input) =< Stripe
      THEN [counted EXCEPT !.mem = @ \o input]
      ELSE [counted EXCEPT !.lanes = @ \o state.mem \o Front(input, used) \o Front(rest, Whole(Len(rest))),
                           !.mem = Behind(rest, Whole(Len(rest)))]

\* Bytes kept from the last call are filled up to a stripe first; what is left
\* of whole stripes is kept for the next.
XXH32_update(state, input) ==
  LET counted == [state EXCEPT !.total = @ + Len(input), !.large = @ \/ Len(input) >= Stripe \/ state.total + Len(input) >= Stripe]
      used == IF state.mem = << >> THEN 0 ELSE Stripe - Len(state.mem)
      rest == Behind(input, used)
  IN  IF Len(state.mem) + Len(input) < Stripe
      THEN [counted EXCEPT !.mem = @ \o input]
      ELSE [counted EXCEPT !.lanes = @ \o state.mem \o Front(input, used) \o Front(rest, Whole(Len(rest))),
                           !.mem = Behind(rest, Whole(Len(rest)))]

\* What the hash is computed from.
Hashed(lanes, large, total, tail) ==
  [lanes |-> IF large THEN lanes ELSE << >>, large |-> large, total |-> total, tail |-> tail]

XXH32_digest(state) == Hashed(state.lanes, state.large, state.total, state.mem)

\* XXH32 over all of the input at once.
XXH32(input) ==
  LET n == Len(input)
      lanes == IF n >= Stripe THEN Whole(n) ELSE 0
  IN  Hashed(Front(input, lanes), n >= Stripe, n, Behind(input, lanes))
=============================================================================
