------------------------ MODULE DecoderHistoryProofs ------------------------
(* The decoder's history, its waiting output and its checksum, for every     *)
(* size of window, of blocks and of the caller's buffers.                     *)
EXTENDS DecoderHistory, SequenceTheorems, TLAPS

-----------------------------------------------------------------------------
(* The checksum                                                              *)

\* A run of content is a sequence.
LEMMA ContentIs ==
  ASSUME NEW a \in Int, NEW n \in Nat
  PROVE  /\ Content(a, n) \in Seq(Int) /\ Len(Content(a, n)) = n
         /\ \A i \in 1 .. n : Content(a, n)[i] = a + i - 1
<1>1. Content(a, n) \in [1 .. n -> Int]
  BY SMT DEF Content
<1>2. Content(a, n) \in Seq(Int)
  BY <1>1, SeqDef
<1>3. Len(Content(a, n)) = n
  <2>1. DOMAIN Content(a, n) = 1 .. n /\ DOMAIN Content(a, n) = 1 .. Len(Content(a, n)) /\ Len(Content(a, n)) \in Nat
    BY <1>1, <1>2, LenProperties
  <2> QED BY <2>1, SMT
<1> QED BY <1>2, <1>3, SMT DEF Content

LEMMA ContentJoined ==
  ASSUME NEW a \in Int, NEW n \in Nat, NEW m \in Nat
  PROVE  Content(a, n) \o Content(a + n, m) = Content(a, n + m)
<1>1. a + n \in Int /\ n + m \in Nat
  OBVIOUS
<1> DEFINE s == Content(a, n)
<1> DEFINE t == Content(a + n, m)
<1> DEFINE u == Content(a, n + m)
<1>2. /\ s \in Seq(Int) /\ Len(s) = n /\ \A i \in 1 .. n : s[i] = a + i - 1
      /\ t \in Seq(Int) /\ Len(t) = m /\ \A i \in 1 .. m : t[i] = a + n + i - 1
      /\ u \in Seq(Int) /\ Len(u) = n + m /\ \A i \in 1 .. n + m : u[i] = a + i - 1
  BY <1>1, ContentIs
<1> HIDE DEF s, t, u
<1>3. /\ s \o t \in Seq(Int) /\ Len(s \o t) = n + m
      /\ \A i \in 1 .. n + m : (s \o t)[i] = IF i <= n THEN s[i] ELSE t[i - n]
  BY <1>2, ConcatProperties
<1>4. \A i \in 1 .. n + m : (s \o t)[i] = u[i]
  BY <1>2, <1>3, SMTT(60)
<1>5. s \o t = u
  BY <1>2, <1>3, <1>4, SeqEqual
<1> QED BY <1>5 DEF s, t, u

LEMMA ContentCut ==
  ASSUME NEW a \in Int, NEW n \in Nat, NEW k \in 0 .. n
  PROVE  /\ Front(Content(a, n), k) = Content(a, k)
         /\ Behind(Content(a, n), k) = Content(a + k, n - k)
<1> DEFINE s == Content(a, n)
<1>1. s \in Seq(Int) /\ Len(s) = n /\ \A i \in 1 .. n : s[i] = a + i - 1
  BY ContentIs
<1>2. /\ Content(a, k) \in Seq(Int) /\ Len(Content(a, k)) = k
      /\ \A i \in 1 .. k : Content(a, k)[i] = a + i - 1
  <2>1. k \in Nat
    OBVIOUS
  <2> QED BY <2>1, ContentIs
<1>3. /\ Content(a + k, n - k) \in Seq(Int) /\ Len(Content(a + k, n - k)) = n - k
      /\ \A i \in 1 .. n - k : Content(a + k, n - k)[i] = a + k + i - 1
  <2>1. a + k \in Int /\ n - k \in Nat
    OBVIOUS
  <2> QED BY <2>1, ContentIs
<1> HIDE DEF s
<1>4. SubSeq(s, 1, k) = Content(a, k)
  <2>1. \A i \in 1 .. k : s[i] \in Int
    BY <1>1, SMT
  <2>2. /\ SubSeq(s, 1, k) \in Seq(Int)
        /\ Len(SubSeq(s, 1, k)) = IF 1 <= k THEN k - 1 + 1 ELSE 0
        /\ \A i \in 1 .. k - 1 + 1 : SubSeq(s, 1, k)[i] = s[1 + i - 1]
    BY <2>1, SubSeqProperties
  <2>3. Len(SubSeq(s, 1, k)) = k /\ \A i \in 1 .. k : SubSeq(s, 1, k)[i] = Content(a, k)[i]
    BY <1>1, <1>2, <2>2, SMT
  <2> QED BY <1>2, <2>2, <2>3, SeqEqual
<1>5. SubSeq(s, k + 1, n) = Content(a + k, n - k)
  <2>1. \A i \in k + 1 .. n : s[i] \in Int
    BY <1>1, SMT
  <2>2. /\ SubSeq(s, k + 1, n) \in Seq(Int)
        /\ Len(SubSeq(s, k + 1, n)) = IF k + 1 <= n THEN n - (k + 1) + 1 ELSE 0
        /\ \A i \in 1 .. n - (k + 1) + 1 : SubSeq(s, k + 1, n)[i] = s[k + 1 + i - 1]
    BY <2>1, SubSeqProperties
  <2>3. Len(SubSeq(s, k + 1, n)) = n - k /\ \A i \in 1 .. n - k : SubSeq(s, k + 1, n)[i] = Content(a + k, n - k)[i]
    BY <1>1, <1>3, <2>2, SMT
  <2> QED BY <1>3, <2>2, <2>3, SeqEqual
<1> QED BY <1>1, <1>4, <1>5 DEF Front, Behind, s

\* Whole stripes, and what is left.
LEMMA StripesOf ==
  ASSUME NEW n \in Nat
  PROVE  \E q \in Nat : n % Stripe \in 0 .. Stripe - 1 /\ n = Stripe * q + (n % Stripe)
<1>1. /\ n \div Stripe \in Nat /\ n % Stripe \in 0 .. Stripe - 1
      /\ n = Stripe * (n \div Stripe) + (n % Stripe)
  BY StripeAssumption, SMT
<1> QED BY <1>1

LEMMA StripesAre ==
  ASSUME NEW n \in Nat, NEW q \in Nat, NEW r \in 0 .. Stripe - 1, n = Stripe * q + r
  PROVE  n % Stripe = r
<1>1. PICK p \in Nat : n % Stripe \in 0 .. Stripe - 1 /\ n = Stripe * p + (n % Stripe)
  BY StripesOf
<1> DEFINE s == n % Stripe
<1>2. Stripe \in Nat /\ Stripe > 0 /\ s \in 0 .. Stripe - 1 /\ n = Stripe * p + s
  BY <1>1, StripeAssumption
<1> HIDE DEF s
<1>3. ASSUME NEW x \in Nat, NEW y \in Nat, NEW u \in 0 .. Stripe - 1, NEW v \in 0 .. Stripe - 1, x > y, Stripe * x + u = Stripe * y + v PROVE FALSE
  <2>1. PICK e \in Nat : x = y + 1 + e
    <3>1. x - y - 1 \in Nat /\ x = y + 1 + (x - y - 1)
      BY <1>3, SMT
    <3> QED BY <3>1
  <2>2. Stripe * x = Stripe * y + Stripe + Stripe * e /\ Stripe * e \in Nat /\ Stripe * y \in Nat
    BY <1>2, <2>1, SMT
  <2> QED BY <1>2, <1>3, <2>2, SMT
<1>4. p = q
  <2>1. ~ (p > q)
    BY <1>2, <1>3
  <2>2. ~ (q > p)
    BY <1>2, <1>3
  <2> QED BY <2>1, <2>2, SMT
<1>5. s = r
  <2>1. Stripe * p \in Nat
    BY <1>2, SMT
  <2> QED BY <1>2, <1>4, <2>1, SMT
<1> QED BY <1>5 DEF s

\* The state of the hash after the first n bytes of the content.
Taken(n) ==
  [lanes |-> Content(0, Whole(n)), mem |-> Content(Whole(n), n - Whole(n)),
   total |-> n, large |-> n >= Stripe]

LEMMA WholeIs ==
  ASSUME NEW n \in Nat
  PROVE  /\ Whole(n) \in 0 .. n /\ n - Whole(n) \in 0 .. Stripe - 1
         /\ n < Stripe => Whole(n) = 0
<1>1. PICK q \in Nat : n % Stripe \in 0 .. Stripe - 1 /\ n = Stripe * q + (n % Stripe)
  BY StripesOf
<1>2. Stripe * q \in Nat
  BY StripeAssumption, SMT
<1>3. n < Stripe => n % Stripe = n
  <2>1. SUFFICES ASSUME n < Stripe PROVE n % Stripe = n
    OBVIOUS
  <2>2. 0 \in Nat /\ n \in 0 .. Stripe - 1 /\ n = Stripe * 0 + n
    BY <2>1, StripeAssumption, SMT
  <2> QED BY <2>2, StripesAre
<1> DEFINE r == n % Stripe
<1>4. r \in 0 .. Stripe - 1 /\ n = Stripe * q + r /\ (n < Stripe => r = n) /\ Whole(n) = n - r
  BY <1>1, <1>3 DEF Whole
<1> HIDE DEF r
<1> QED BY <1>2, <1>4, StripeAssumption, SMT

\* How much of n + k bytes is whole stripes, n of them having come before.
LEMMA WholeOfMore ==
  ASSUME NEW n \in Nat, NEW k \in Nat
  PROVE  LET m    == n - Whole(n)
             used == IF m = 0 THEN 0 ELSE Stripe - m
         IN  IF m + k < Stripe THEN Whole(n + k) = Whole(n)
             ELSE used \in 0 .. k /\ Whole(n + k) = Whole(n) + m + used + Whole(k - used)
<1> DEFINE m    == n - Whole(n)
<1> DEFINE used == IF m = 0 THEN 0 ELSE Stripe - m
<1>1. PICK q \in Nat : n % Stripe \in 0 .. Stripe - 1 /\ n = Stripe * q + (n % Stripe)
  BY StripesOf
<1>2. m = n % Stripe /\ Whole(n) = n - (n % Stripe)
  BY <1>1, StripeAssumption, SMT DEF Whole
<1>3. m \in 0 .. Stripe - 1 /\ n = Stripe * q + m /\ Whole(n) = n - m /\ Stripe \in Nat /\ Stripe > 0
  BY <1>1, <1>2, StripeAssumption
<1> HIDE DEF m
<1>4. CASE m + k < Stripe
  <2>1. n + k \in Nat /\ m + k \in 0 .. Stripe - 1 /\ n + k = Stripe * q + (m + k)
    <3>1. Stripe * q \in Nat
      BY <1>3, SMT
    <3> QED BY <1>3, <1>4, <3>1, SMT
  <2>2. (n + k) % Stripe = m + k
    BY <2>1, StripesAre
  <2>3. Whole(n + k) = (n + k) - (m + k)
    BY <2>2 DEF Whole
  <2> QED BY <1>3, <1>4, <2>3, SMT DEF m
<1>5. CASE ~ (m + k < Stripe)
  <2>1. used \in 0 .. k /\ k - used \in Nat /\ (m + used = 0 \/ m + used = Stripe)
    BY <1>3, <1>5, SMT
  <2>2. PICK p \in Nat : /\ (k - used) % Stripe \in 0 .. Stripe - 1
                         /\ k - used = Stripe * p + ((k - used) % Stripe)
    BY <2>1, StripesOf
  <2> DEFINE r == (k - used) % Stripe
  <2>3. r \in 0 .. Stripe - 1 /\ k - used = Stripe * p + r /\ Whole(k - used) = k - used - r
    BY <2>2 DEF Whole
  <2> HIDE DEF r, used
  <2>4. (n + k) % Stripe = r
    <3>1. PICK e \in {0, 1} : m + used = Stripe * e
      <4>1. m + used = Stripe * 0 \/ m + used = Stripe * 1
        BY <1>3, <2>1, SMT
      <4> QED BY <4>1
    <3>2. n + k \in Nat /\ q + e + p \in Nat
      BY SMT
    <3>3. Stripe * (q + e + p) = Stripe * q + Stripe * e + Stripe * p
      BY <1>3, <3>1, SMT
    <3>4. Stripe * q \in Nat /\ Stripe * e \in Nat /\ Stripe * p \in Nat
      BY <1>3, <3>1, SMT
    <3>5. n + k = Stripe * (q + e + p) + r
      BY <1>3, <2>1, <2>3, <3>1, <3>3, <3>4, SMT
    <3> QED BY <2>3, <3>2, <3>5, StripesAre
  <2>5. Whole(n + k) = (n + k) - r
    BY <2>4 DEF Whole
  <2>6. Whole(n + k) = Whole(n) + m + used + Whole(k - used)
    BY <1>3, <2>1, <2>3, <2>5, SMT
  <2> QED BY <1>5, <2>1, <2>6 DEF m, used
<1> QED BY <1>4, <1>5

\* However the content comes, the hash has taken the same (xxhash.c).
LEMMA HashTakes ==
  ASSUME NEW n \in Nat, NEW k \in Nat
  PROVE  XXH32_update(Taken(n), Content(n, k)) = Taken(n + k)
<1> DEFINE w    == Whole(n)
<1> DEFINE m    == n - w
<1> DEFINE used == IF m = 0 THEN 0 ELSE Stripe - m
<1> DEFINE rest == Behind(Content(n, k), used)
<1> DEFINE large == (n >= Stripe \/ k >= Stripe) \/ n + k >= Stripe
<1>1. /\ w \in 0 .. n /\ m \in 0 .. Stripe - 1 /\ Stripe \in Nat \ {0}
      /\ IF m + k < Stripe THEN Whole(n + k) = w
         ELSE used \in 0 .. k /\ Whole(n + k) = w + m + used + Whole(k - used)
  BY WholeIs, WholeOfMore, StripeAssumption
<1>2. /\ Len(Content(n, k)) = k /\ Len(Content(w, m)) = m
      /\ Content(w, m) = << >> <=> m = 0
      /\ n + k \in Nat /\ m \in Nat /\ w \in Nat /\ w + m = n
  <2>1. n \in Int /\ w \in Int /\ m \in Nat /\ w \in Nat /\ w + m = n /\ n + k \in Nat
    BY <1>1, SMT
  <2>2. Len(Content(n, k)) = k /\ Len(Content(w, m)) = m /\ Content(w, m) \in Seq(Int)
    BY <2>1, ContentIs
  <2>3. Content(w, m) = << >> <=> m = 0
    BY <2>2, EmptySeq
  <2> QED BY <2>1, <2>2, <2>3
<1>3. large <=> n + k >= Stripe
  BY <1>1, SMT
<1>4. XXH32_update(Taken(n), Content(n, k)) =
        IF m + k < Stripe
        THEN [lanes |-> Content(0, w), mem |-> Content(w, m) \o Content(n, k), total |-> n + k, large |-> large]
        ELSE [lanes |-> Content(0, w) \o Content(w, m) \o Front(Content(n, k), used) \o Front(rest, Whole(Len(rest))),
              mem |-> Behind(rest, Whole(Len(rest))), total |-> n + k, large |-> large]
  <2> DEFINE c == Content(n, k)
  <2> DEFINE t == Content(w, m)
  <2> DEFINE l == Content(0, w)
  <2>1. Taken(n) = [lanes |-> l, mem |-> t, total |-> n, large |-> n >= Stripe]
    BY DEF Taken
  <2>2. Len(c) = k /\ Len(t) = m /\ (t = << >> <=> m = 0)
    BY <1>2
  <2> DEFINE b == n >= Stripe
  <2> DEFINE s == Taken(n)
  <2>3. s = [lanes |-> l, mem |-> t, total |-> n, large |-> b]
    BY <2>1
  <2> HIDE DEF t, l, w, m, s, b
  <2>4. s.lanes = l /\ s.mem = t /\ s.total = n /\ s.large = b
    BY <2>3
  <2>5. [s EXCEPT !.total = @ + Len(c), !.large = @ \/ Len(c) >= Stripe \/ s.total + Len(c) >= Stripe] =
          [lanes |-> l, mem |-> t, total |-> n + k, large |-> b \/ k >= Stripe \/ n + k >= Stripe]
    <3>1. \A x, y : [s EXCEPT !.total = x, !.large = y] = [lanes |-> l, mem |-> t, total |-> x, large |-> y]
      <4>1. TAKE x, y
      <4> DEFINE r == [s EXCEPT !.total = x]
      <4>2. r = [lanes |-> l, mem |-> t, total |-> x, large |-> b]
        BY <2>3
      <4> HIDE DEF r
      <4>3. [r EXCEPT !.large = y] = [lanes |-> l, mem |-> t, total |-> x, large |-> y]
        BY <4>2
      <4>4. [r EXCEPT !.large = y] = [s EXCEPT !.total = x, !.large = y]
        BY DEF r
      <4> QED BY <4>3, <4>4
    <3>2. (s.large \/ Len(c) >= Stripe \/ s.total + Len(c) >= Stripe) = (b \/ k >= Stripe \/ n + k >= Stripe)
      BY <2>2, <2>4
    <3>3. s.total + Len(c) = n + k
      BY <2>2, <2>4
    <3> QED BY <3>1, <3>2, <3>3, Zenon
  <2>6. large = (b \/ k >= Stripe \/ n + k >= Stripe)
    BY DEF b
  <2>7. (IF s.mem = << >> THEN 0 ELSE Stripe - Len(s.mem)) = used /\ Len(s.mem) + Len(c) = m + k
    BY <2>2, <2>4
  <2> DEFINE counted == [lanes |-> l, mem |-> t, total |-> n + k, large |-> large]
  <2>8. [s EXCEPT !.total = @ + Len(c), !.large = @ \/ Len(c) >= Stripe \/ s.total + Len(c) >= Stripe] = counted
    BY <2>5, <2>6
  <2>9. XXH32_update(s, c) =
          IF m + k < Stripe THEN [counted EXCEPT !.mem = @ \o c]
          ELSE [counted EXCEPT !.lanes = @ \o s.mem \o Front(c, used) \o Front(rest, Whole(Len(rest))),
                               !.mem = Behind(rest, Whole(Len(rest)))]
    <3> HIDE DEF c, counted
    <3> QED BY <2>7, <2>8, Zenon DEF XXH32_update, c
  <2> HIDE DEF c, large, used
  <2> DEFINE x == Front(c, used) \o Front(rest, Whole(Len(rest)))
  <2> QED BY <2>4, <2>9 DEF c, s, t, l
<1>5. CASE m + k < Stripe
  <2>1. Content(w, m) \o Content(n, k) = Content(w, m + k)
    <3>1. Content(w, m) \o Content(w + m, k) = Content(w, m + k)
      <4>1. w \in Int
        BY <1>2
      <4> QED BY <1>2, <4>1, ContentJoined
    <3> QED BY <1>2, <3>1
  <2>2. Whole(n + k) = w /\ (n + k) - w = m + k
    BY <1>1, <1>2, <1>5, SMT
  <2> QED BY <1>3, <1>4, <1>5, <2>1, <2>2 DEF Taken
<1>6. CASE ~ (m + k < Stripe)
  <2>1. used \in 0 .. k /\ Whole(n + k) = w + m + used + Whole(k - used)
    BY <1>1, <1>6
  <2> HIDE DEF used, m, w
  <2>2. rest = Content(n + used, k - used) /\ Front(Content(n, k), used) = Content(n, used)
    <3>1. n \in Int
      OBVIOUS
    <3> QED BY <2>1, <3>1, ContentCut
  <2> DEFINE v == Whole(k - used)
  <2>3. k - used \in Nat /\ v \in 0 .. (k - used) /\ used \in Nat /\ n + used \in Int
    <3>1. k - used \in Nat
      BY <2>1, SMT
    <3> QED BY <2>1, <3>1, WholeIs, SMT
  <2> HIDE DEF v
  <2>4. Len(rest) = k - used
    BY <2>2, <2>3, ContentIs
  <2>5. /\ Front(rest, v) = Content(n + used, v)
        /\ Behind(rest, v) = Content(n + used + v, k - used - v)
    BY <2>2, <2>3, ContentCut, ZenonT(60)
  <2>6. v \in Nat /\ n + used + v = Whole(n + k) /\ k - used - v = (n + k) - Whole(n + k)
    <3>1. Whole(n + k) = w + m + used + v
      BY <2>1 DEF v
    <3> DEFINE W == Whole(n + k)
    <3>2. W = w + m + used + v
      BY <3>1
    <3> HIDE DEF W
    <3>3. v \in Nat /\ n + used + v = W /\ k - used - v = (n + k) - W
      BY <1>2, <2>3, <3>2, SMT
    <3> QED BY <3>3 DEF W
  <2>7. Content(0, w) \o Content(w, m) \o Content(n, used) \o Content(n + used, v) = Content(0, n + used + v)
    <3>0. 0 \in Int
      OBVIOUS
    <3>1. Content(0, w) \o Content(0 + w, m) = Content(0, w + m)
      BY <1>2, <3>0, ContentJoined
    <3>2. 0 + w = w /\ w + m = n /\ 0 + n = n /\ 0 + (n + used) = n + used /\ n + used \in Nat
      BY <1>2, <2>3, SMT
    <3>3. Content(0, n) \o Content(0 + n, used) = Content(0, n + used)
      BY <2>3, <3>0, ContentJoined
    <3>4. Content(0, n + used) \o Content(0 + (n + used), v) = Content(0, (n + used) + v)
      BY <2>6, <3>0, <3>2, ContentJoined
    <3> QED BY <3>1, <3>2, <3>3, <3>4
  <2>8. XXH32_update(Taken(n), Content(n, k)) =
          [lanes |-> Content(0, Whole(n + k)), mem |-> Content(Whole(n + k), (n + k) - Whole(n + k)),
           total |-> n + k, large |-> n + k >= Stripe]
    <3>1. large = (n + k >= Stripe)
      BY <1>3
    <3>2. Whole(Len(rest)) = v
      BY <2>4 DEF v
    <3>3. XXH32_update(Taken(n), Content(n, k)) =
            [lanes |-> Content(0, w) \o Content(w, m) \o Front(Content(n, k), used) \o Front(rest, v),
             mem |-> Behind(rest, v), total |-> n + k, large |-> large]
      BY <1>4, <1>6, <3>2
    <3> HIDE DEF large, rest
    <3> QED BY <2>2, <2>5, <2>6, <2>7, <3>1, <3>3
  <2> QED BY <2>8 DEF Taken
<1> QED BY <1>5, <1>6

LEMMA HashStarts == XXH32_reset = Taken(0)
<1>1. 0 \in Nat /\ Whole(0) = 0 /\ (0 >= Stripe) = FALSE /\ 0 - 0 = 0
  <2>1. 0 \in Nat
    BY SMT
  <2> QED BY <2>1, WholeIs, StripeAssumption, SMT
<1>2. Content(0, 0) = << >>
  <2>1. Content(0, 0) \in Seq(Int) /\ Len(Content(0, 0)) = 0
    BY ContentIs
  <2> QED BY <2>1, EmptySeq
<1> QED BY <1>1, <1>2, Zenon DEF Taken, XXH32_reset

\* What it gives is the hash of it all at once.
LEMMA HashOfAll ==
  ASSUME NEW n \in Nat
  PROVE  XXH32_digest(Taken(n)) = XXH32(Content(0, n))
<1>1. Len(Content(0, n)) = n
  BY ContentIs
<1>2. Whole(n) \in 0 .. n /\ (n < Stripe => Whole(n) = 0)
  BY WholeIs
<1> DEFINE lanes == IF n >= Stripe THEN Whole(n) ELSE 0
<1>3. lanes = Whole(n)
  BY <1>2, StripeAssumption, SMT
<1>4. Front(Content(0, n), Whole(n)) = Content(0, Whole(n)) /\ Behind(Content(0, n), Whole(n)) = Content(Whole(n), n - Whole(n))
  <2>1. 0 + Whole(n) = Whole(n)
    BY <1>2, SMT
  <2> QED BY <1>2, <2>1, ContentCut
<1>5. XXH32(Content(0, n)) = Hashed(Content(0, Whole(n)), n >= Stripe, n, Content(Whole(n), n - Whole(n)))
  BY <1>1, <1>3, <1>4, Zenon DEF XXH32
<1> QED BY <1>5, Zenon DEF XXH32_digest, Taken

-----------------------------------------------------------------------------
(* Memory                                                                    *)

\* The byte at address a of a buffer.
In(m, a) == IF a + 1 \in DOMAIN m THEN m[a + 1] ELSE Junk

\* The buffer named, of tmpOutBuffer t and the caller's buffers d.
Memory(t, d, where) == IF where = Tmp THEN t ELSE IF where = NULL THEN << >> ELSE d[where]

\* The bytes before `end`, size of them, hold what the next block refers to when
\* `given` bytes were handed out and `done` decoded.
RightAt(m, end, size, given, done) ==
  \A k \in 1 .. given : given - k >= done - KB64 => k <= size /\ In(m, end - k) = given - k

LEMMA Appended ==
  ASSUME NEW m, m \in Seq(Int), NEW from \in Int, NEW n \in Nat
  PROVE  /\ m \o Content(from, n) \in Seq(Int)
         /\ Len(m \o Content(from, n)) = Len(m) + n /\ Len(m) \in Nat
         /\ \A a \in 0 .. Len(m) - 1 : In(m \o Content(from, n), a) = In(m, a)
         /\ \A j \in 0 .. n - 1 : In(m \o Content(from, n), Len(m) + j) = from + j
<1> DEFINE c == Content(from, n)
<1> DEFINE w == m \o c
<1>1. c \in Seq(Int) /\ Len(c) = n /\ \A i \in 1 .. n : c[i] = from + i - 1
  BY ContentIs
<1>2. Len(m) \in Nat /\ DOMAIN m = 1 .. Len(m)
  BY LenProperties
<1> HIDE DEF c
<1>3. /\ w \in Seq(Int) /\ Len(w) = Len(m) + n
      /\ \A i \in 1 .. Len(m) + n : w[i] = IF i <= Len(m) THEN m[i] ELSE c[i - Len(m)]
  BY <1>1, ConcatProperties
<1>4. DOMAIN w = 1 .. (Len(m) + n)
  BY <1>3, LenProperties
<1> HIDE DEF w
<1>5. \A a \in 0 .. Len(m) - 1 : In(w, a) = In(m, a)
  <2>1. TAKE a \in 0 .. Len(m) - 1
  <2>2. a + 1 \in 1 .. Len(m) /\ a + 1 \in 1 .. (Len(m) + n) /\ a + 1 <= Len(m)
    BY <1>2, SMT
  <2>3. w[a + 1] = m[a + 1]
    BY <1>3, <2>2
  <2> QED BY <1>2, <1>4, <2>2, <2>3 DEF In
<1>6. \A j \in 0 .. n - 1 : In(w, Len(m) + j) = from + j
  <2>1. TAKE j \in 0 .. n - 1
  <2>2. /\ Len(m) + j + 1 \in 1 .. (Len(m) + n) /\ ~ (Len(m) + j + 1 <= Len(m))
        /\ Len(m) + j + 1 - Len(m) = j + 1 /\ j + 1 \in 1 .. n /\ from + (j + 1) - 1 = from + j
    BY <1>2, SMT
  <2>3. w[Len(m) + j + 1] = c[j + 1]
    BY <1>3, <2>2
  <2>4. c[j + 1] = from + j
    BY <1>1, <2>2
  <2> QED BY <1>4, <2>2, <2>3, <2>4 DEF In
<1> QED BY <1>2, <1>3, <1>5, <1>6 DEF w, c

\* A buffer written anew, address by address.
LEMMA Rewritten ==
  ASSUME NEW m, m \in Seq(Int), NEW t, DOMAIN t = DOMAIN m, t = [i \in DOMAIN m |-> t[i]],
         \A i \in DOMAIN m : t[i] \in Int
  PROVE  /\ t \in Seq(Int) /\ Len(t) = Len(m)
         /\ \A a : a + 1 \notin DOMAIN m => In(t, a) = In(m, a)
<1>1. Len(m) \in Nat /\ DOMAIN m = 1 .. Len(m)
  BY LenProperties
<1>2. t \in [1 .. Len(m) -> Int]
  BY <1>1
<1>3. t \in Seq(Int)
  BY <1>1, <1>2, SeqDef
<1>4. Len(t) = Len(m)
  <2>1. Len(t) \in Nat /\ DOMAIN t = 1 .. Len(t)
    BY <1>3, LenProperties
  <2> QED BY <1>1, <2>1, SMT
<1> QED BY <1>3, <1>4 DEF In

LEMMA InIsInt ==
  ASSUME NEW m, m \in Seq(Int), NEW a
  PROVE  In(m, a) \in Int
<1>1. m \in [1 .. Len(m) -> Int] /\ DOMAIN m = 1 .. Len(m)
  BY LenProperties
<1> QED BY <1>1, SMT DEF In, Junk

\* t is tmp with n bytes of m, those from address a on, at address to.
CopyOf(t, m, to, a, n) ==
  /\ t \in Seq(Int) /\ Len(t) = Len(tmp)
  /\ \A j \in 0 .. n - 1 : In(t, to + j) = In(m, a + j)
  /\ \A x \in Int : (x < to \/ to + n <= x) => In(t, x) = In(tmp, x)

\* A copy, to a place it does not overlap.
LEMMA CopiedIs ==
  ASSUME NEW to \in Nat, NEW where, NEW a \in Int, NEW n \in Nat,
         tmp \in Seq(Int), Memory(tmp, dst, where) \in Seq(Int),
         to + n <= Len(tmp),
         where # Tmp \/ a + n <= to \/ to + n <= a
  PROVE  CopyOf(Copied(to, where, a, n), Memory(tmp, dst, where), to, a, n)
<1> DEFINE t == Copied(to, where, a, n)
<1> DEFINE m == Memory(tmp, dst, where)
<1>1. \A x : Byte(where, x) = In(m, x)
  BY DEF Byte, In, Memory
<1>2. ~ (where = Tmp /\ a < to + n /\ to < a + n)
  BY SMT
<1>3. t = [i \in DOMAIN tmp |-> IF i - 1 \in to .. to + n - 1 THEN In(m, a + (i - 1 - to)) ELSE tmp[i]]
  BY <1>1, <1>2 DEF Copied
<1>4. Len(tmp) \in Nat /\ DOMAIN tmp = 1 .. Len(tmp) /\ tmp \in [1 .. Len(tmp) -> Int]
  BY LenProperties
<1>5. \A x : In(m, x) \in Int
  BY InIsInt
<1> HIDE DEF t, m
<1>6. \A i \in DOMAIN tmp : t[i] \in Int
  BY <1>3, <1>4, <1>5
<1>7. DOMAIN t = DOMAIN tmp /\ t = [i \in DOMAIN tmp |-> t[i]]
  BY <1>3
<1>8. t \in Seq(Int) /\ Len(t) = Len(tmp) /\ \A x : x + 1 \notin DOMAIN tmp => In(t, x) = In(tmp, x)
  BY <1>6, <1>7, Rewritten
<1>9. \A j \in 0 .. n - 1 : In(t, to + j) = In(m, a + j)
  <2>1. TAKE j \in 0 .. n - 1
  <2>2. to + j + 1 \in 1 .. Len(tmp) /\ to + j + 1 - 1 \in to .. to + n - 1 /\ a + (to + j + 1 - 1 - to) = a + j
    BY <1>4, SMT
  <2> DEFINE i == to + j + 1
  <2>3. i \in DOMAIN tmp /\ i - 1 \in to .. to + n - 1 /\ a + (i - 1 - to) = a + j
    BY <1>4, <2>2
  <2> HIDE DEF i
  <2>4. t[i] = In(m, a + (i - 1 - to))
    BY <1>3, <2>3
  <2>5. t[to + j + 1] = In(m, a + j)
    BY <2>3, <2>4 DEF i
  <2> QED BY <1>4, <1>7, <2>2, <2>5 DEF In
<1>10. \A x \in Int : (x < to \/ to + n <= x) => In(t, x) = In(tmp, x)
  <2>1. SUFFICES ASSUME NEW x \in Int, x < to \/ to + n <= x, x + 1 \in DOMAIN tmp PROVE In(t, x) = In(tmp, x)
    BY <1>8
  <2>2. ~ (x + 1 - 1 \in to .. to + n - 1)
    BY <2>1, SMT
  <2>3. t[x + 1] = tmp[x + 1]
    BY <1>3, <2>1, <2>2
  <2> QED BY <1>7, <2>1, <2>3 DEF In
<1>11. CopyOf(t, m, to, a, n)
  BY <1>8, <1>9, <1>10 DEF CopyOf
<1> QED BY <1>11 DEF t, m

\* New bytes behind others.
LEMMA JoinedIs ==
  ASSUME NEW m, m \in Seq(Int), NEW at \in Nat, NEW from \in Int, NEW n \in Nat, at + n <= Len(m)
  PROVE  /\ Joined(m, at, from, n) \in Seq(Int) /\ Len(Joined(m, at, from, n)) = Len(m)
         /\ \A j \in 0 .. n - 1 : In(Joined(m, at, from, n), at + j) = from + j
         /\ \A x \in Int : (x < at \/ at + n <= x) => In(Joined(m, at, from, n), x) = In(m, x)
<1> DEFINE t == Joined(m, at, from, n)
<1>3. t = [i \in DOMAIN m |-> IF i - 1 \in at .. at + n - 1 THEN from + (i - 1 - at) ELSE m[i]]
  BY DEF Joined
<1>4. Len(m) \in Nat /\ DOMAIN m = 1 .. Len(m) /\ m \in [1 .. Len(m) -> Int]
  BY LenProperties
<1> HIDE DEF t
<1>6. \A i \in DOMAIN m : t[i] \in Int
  BY <1>3, <1>4, SMT
<1>7. DOMAIN t = DOMAIN m /\ t = [i \in DOMAIN m |-> t[i]]
  BY <1>3
<1>8. t \in Seq(Int) /\ Len(t) = Len(m) /\ \A x : x + 1 \notin DOMAIN m => In(t, x) = In(m, x)
  BY <1>6, <1>7, Rewritten
<1>9. \A j \in 0 .. n - 1 : In(t, at + j) = from + j
  <2>1. TAKE j \in 0 .. n - 1
  <2>2. at + j + 1 \in 1 .. Len(m) /\ at + j + 1 - 1 \in at .. at + n - 1 /\ from + (at + j + 1 - 1 - at) = from + j
    BY <1>4, SMT
  <2>3. t[at + j + 1] = from + j
    BY <1>3, <1>4, <2>2
  <2> QED BY <1>4, <1>7, <2>2, <2>3 DEF In
<1>10. \A x \in Int : (x < at \/ at + n <= x) => In(t, x) = In(m, x)
  <2>1. SUFFICES ASSUME NEW x \in Int, x < at \/ at + n <= x, x + 1 \in DOMAIN m PROVE In(t, x) = In(m, x)
    BY <1>8
  <2>2. ~ (x + 1 - 1 \in at .. at + n - 1)
    BY <2>1, SMT
  <2>3. t[x + 1] = m[x + 1]
    BY <1>3, <2>1, <2>2
  <2> QED BY <1>7, <2>1, <2>3 DEF In
<1> QED BY <1>8, <1>9, <1>10 DEF t

-----------------------------------------------------------------------------
(* History that stays, moves and grows                                       *)

\* When more has been decoded, less of it counts.
LEMMA Narrowed ==
  ASSUME NEW m, NEW end \in Int, NEW size \in Int, NEW g \in Nat, NEW d \in Nat, NEW d2 \in Nat, d <= d2,
         RightAt(m, end, size, g, d)
  PROVE  RightAt(m, end, size, g, d2)
<1>1. \A k \in 1 .. g : g - k >= d2 - KB64 => g - k >= d - KB64
  BY HistoryAssumption, SMT
<1> QED BY <1>1 DEF RightAt

\* The last `kept` bytes elsewhere.
LEMMA Moved ==
  ASSUME NEW m, NEW t, NEW end \in Int, NEW to \in Int, NEW size \in Int, NEW kept \in Nat, NEW left \in Int,
         NEW g \in Nat, NEW d \in Nat,
         RightAt(m, end, size, g, d), kept <= left,
         \A k \in 1 .. g : g - k >= d - KB64 => k <= kept,
         \A j \in 0 .. kept - 1 : In(t, to + j) = In(m, end - kept + j)
  PROVE  RightAt(t, to + kept, left, g, d)
<1>1. SUFFICES ASSUME NEW k \in 1 .. g, g - k >= d - KB64 PROVE k <= left /\ In(t, to + kept - k) = g - k
  BY DEF RightAt
<1>2. k <= size /\ In(m, end - k) = g - k /\ k <= kept
  BY <1>1 DEF RightAt
<1>3. kept - k \in 0 .. kept - 1 /\ k <= left
  BY <1>2, SMT
<1>4. to + (kept - k) = to + kept - k /\ end - kept + (kept - k) = end - k
  BY SMT
<1>5. In(t, to + (kept - k)) = In(m, end - kept + (kept - k))
  BY <1>3
<1> QED BY <1>2, <1>3, <1>4, <1>5

\* n more bytes behind it.
LEMMA Extended ==
  ASSUME NEW m, NEW t, NEW end \in Int, NEW size \in Int, NEW n \in Nat, NEW g \in Nat, NEW d \in Nat,
         RightAt(m, end, size, g, d),
         \A x \in end - size .. end - 1 : In(t, x) = In(m, x),
         \A j \in 0 .. n - 1 : In(t, end + j) = g + j,
         size >= 0
  PROVE  RightAt(t, end + n, size + n, g + n, d)
<1>1. SUFFICES ASSUME NEW k \in 1 .. g + n, g + n - k >= d - KB64
               PROVE  k <= size + n /\ In(t, end + n - k) = g + n - k
  BY DEF RightAt
<1>2. CASE k <= n
  <2>1. n - k \in 0 .. n - 1 /\ end + (n - k) = end + n - k /\ g + (n - k) = g + n - k
    BY <1>2, SMT
  <2>2. In(t, end + (n - k)) = g + (n - k)
    BY <2>1
  <2> QED BY <1>2, <2>1, <2>2, SMT
<1>3. CASE k > n
  <2>1. k - n \in 1 .. g /\ g - (k - n) >= d - KB64 /\ g - (k - n) = g + n - k
    BY <1>1, <1>3, HistoryAssumption, SMT
  <2>2. k - n <= size /\ In(m, end - (k - n)) = g - (k - n)
    BY <2>1 DEF RightAt
  <2>3. end - (k - n) \in end - size .. end - 1 /\ end - (k - n) = end + n - k
    BY <2>1, <2>2, SMT
  <2>4. In(t, end - (k - n)) = g - (k - n)
    BY <2>2, <2>3
  <2> QED BY <2>1, <2>2, <2>3, <2>4, SMT
<1> QED BY <1>2, <1>3, SMT

-----------------------------------------------------------------------------
(* The invariant                                                             *)

Reading == dctx.stage # "init"

DctxFields ==
  {"stage", "linked", "max", "cap", "dict", "left", "out", "start", "size", "done", "xxh"}

IsDict(d) == /\ DOMAIN d = {"where", "at", "size"} /\ d.where \in {Tmp, 1, 2, NULL} /\ d.at \in Nat /\ d.size \in Nat

IsDctx(d) ==
  /\ DOMAIN d = DctxFields /\ d.stage \in {"init", "blockHeader", "copyDirect", "flushOut"}
  /\ d.linked \in BOOLEAN /\ IsDict(d.dict)
  /\ d.max \in Nat /\ d.cap \in Nat /\ d.left \in Nat /\ d.out \in Nat
  /\ d.start \in Nat /\ d.size \in Nat /\ d.done \in Nat

IsCall(c) ==
  /\ DOMAIN c = {"active", "buf", "start", "room", "stable"} /\ c.active \in BOOLEAN
  /\ c.buf \in {1, 2} /\ c.start \in Nat /\ c.room \in Nat /\ c.stable \in BOOLEAN

Shapes ==
  /\ IsDctx(dctx) /\ IsCall(call) /\ frames \in Nat
  /\ tmp \in Seq(Int) /\ DOMAIN dst = {1, 2} /\ dst[1] \in Seq(Int) /\ dst[2] \in Seq(Int)

\* tmpOutBuffer has room for a block, and before it for twice the window.
Allocated ==
  /\ dctx.cap > 0 => Len(tmp) = dctx.cap
  /\ Reading => dctx.max >= KB64 /\ Needed(dctx.linked, dctx.max) <= dctx.cap
  /\ dctx.stage = "flushOut" =>
       /\ dctx.out + dctx.max <= dctx.cap
       /\ dctx.start <= dctx.size /\ dctx.size <= dctx.max /\ dctx.size <= dctx.done

\* Where the dictionary may lie; in tmpOutBuffer, it ends where output waits.
Placed ==
  /\ ~ (Reading /\ dctx.linked) => dctx.dict = NoDict /\ dctx.out = 0
  /\ dctx.dict.where = NULL => dctx.dict.size = 0
  /\ dctx.dict.where = Tmp => dctx.dict.at = 0 /\ dctx.dict.size <= dctx.cap
  /\ dctx.dict.where = Tmp /\ dctx.stage = "flushOut" => dctx.dict.size = dctx.out + dctx.start
  /\ ~ call.active /\ ~ call.stable => dctx.dict.where \in {Tmp, NULL}

\* What this call has written is the content up to what was handed out.
Delivered ==
  call.active =>
    LET m == dst[call.buf]
    IN  /\ call.start <= Len(m) /\ Len(m) - call.start <= call.room
        /\ ~ Reading => Len(m) = call.start
        /\ Reading => \A j \in 1 .. Len(m) - call.start : In(m, Len(m) - j) = Given - j

\* The block in tmpOut stays as it was decoded.
Block ==
  dctx.stage = "flushOut" =>
    \A k \in 0 .. dctx.size - 1 : In(tmp, dctx.out + k) = dctx.done - dctx.size + k

\* The history is right, and there was room for what counts of it before tmpOut.
Remembered ==
  Reading /\ dctx.linked =>
    /\ RightAt(Memory(tmp, dst, dctx.dict.where), DictEnd, dctx.dict.size, Given, dctx.done)
    /\ dctx.stage = "flushOut" =>
         \A k \in 1 .. Given : Given - k >= dctx.done - KB64 => k <= dctx.out + dctx.start

Hash == dctx.xxh = Taken(dctx.done)

HInv == Shapes /\ Allocated /\ Placed /\ Delivered /\ Block /\ Remembered /\ Hash

LEMMA MemoryIs ==
  ASSUME Shapes, NEW w \in {Tmp, 1, 2, NULL}
  PROVE  Memory(tmp, dst, w) \in Seq(Int)
<1>1. << >> \in Seq(Int)
  BY EmptySeq
<1> QED BY <1>1 DEF Shapes, Memory, Tmp, NULL

LEMMA GivenIs ==
  ASSUME Shapes, Allocated
  PROVE  /\ Given \in Nat /\ Given <= dctx.done
         /\ dctx.stage # "flushOut" => Given = dctx.done
         /\ dctx.stage = "flushOut" => dctx.done = Given + dctx.size - dctx.start
<1>1. CASE dctx.stage = "flushOut"
  BY <1>1, SMTT(60) DEF Shapes, Allocated, IsDctx, Given
<1>2. CASE dctx.stage # "flushOut"
  BY <1>2, SMT DEF Shapes, Allocated, IsDctx, Given
<1> QED BY <1>1, <1>2

-----------------------------------------------------------------------------
(* LZ4F_updateDict                                                           *)

\* A dictionary and a tmpOutBuffer to go on with, when n bytes more have been
\* handed out and `done` have been decoded.
GoodUpdate(dict, t, n, withinTmp, done) ==
  /\ IsDict(dict) /\ dict.where \in {Tmp, call.buf}
  /\ t \in Seq(Int) /\ Len(t) = Len(tmp)
  /\ dict.where = Tmp => dict.at = 0 /\ dict.size <= dctx.cap
  /\ dict.where = Tmp /\ withinTmp => dict.size = dctx.out + dctx.start + n
  /\ withinTmp => \A x \in Nat : dctx.out <= x => In(t, x) = In(tmp, x)
  /\ RightAt(Memory(t, Written(Given, n), dict.where), dict.at + dict.size, dict.size, Given + n, done)

\* n bytes may be handed out.
Handing(n, withinTmp) ==
  /\ Shapes /\ Allocated /\ Placed /\ Delivered /\ Block /\ Remembered
  /\ Reading /\ dctx.linked /\ call.active
  /\ IF withinTmp THEN dctx.stage = "flushOut" /\ n <= dctx.size - dctx.start
                  ELSE dctx.stage # "flushOut"

\* What has been decoded once they are.
DoneAfter(n, withinTmp) == IF withinTmp THEN dctx.done ELSE Given + n

LEMMA WrittenIs ==
  ASSUME Shapes, Allocated, NEW n \in Nat
  PROVE  LET b == call.buf
             w == Written(Given, n)
         IN  /\ w[b] \in Seq(Int) /\ DOMAIN w = {1, 2} /\ w[1] \in Seq(Int) /\ w[2] \in Seq(Int)
             /\ Len(w[b]) = Len(dst[b]) + n /\ Len(dst[b]) \in Nat
             /\ \A a \in 0 .. Len(dst[b]) - 1 : In(w[b], a) = In(dst[b], a)
             /\ \A j \in 0 .. n - 1 : In(w[b], Len(dst[b]) + j) = Given + j
<1> DEFINE b == call.buf
<1> DEFINE g == Given
<1> DEFINE w == Written(Given, n)
<1> DEFINE m == dst[b]
<1>1. b \in {1, 2} /\ m \in Seq(Int) /\ g \in Int
  BY GivenIs DEF Shapes, IsCall
<1>2. w = [dst EXCEPT ![b] = m \o Content(g, n)]
  BY DEF Written
<1>3. w[b] = m \o Content(g, n) /\ DOMAIN w = {1, 2} /\ \A x \in {1, 2} : x # b => w[x] = dst[x]
  BY <1>1, <1>2 DEF Shapes
<1> HIDE DEF g, m, w
<1>4. /\ m \o Content(g, n) \in Seq(Int)
      /\ Len(m \o Content(g, n)) = Len(m) + n /\ Len(m) \in Nat
      /\ \A a \in 0 .. Len(m) - 1 : In(m \o Content(g, n), a) = In(m, a)
      /\ \A j \in 0 .. n - 1 : In(m \o Content(g, n), Len(m) + j) = g + j
  BY <1>1, Appended
<1>5. w[1] \in Seq(Int) /\ w[2] \in Seq(Int)
  BY <1>1, <1>3, <1>4 DEF Shapes
<1> QED BY <1>3, <1>4, <1>5 DEF w, m, g

LEMMA HandingFacts ==
  ASSUME NEW n \in Nat, NEW within \in BOOLEAN, Handing(n, within)
  PROVE  /\ Given \in Nat /\ DoneAfter(n, within) \in Nat /\ Given + n <= DoneAfter(n, within)
         /\ ~ within => DoneAfter(n, within) = Given + n
         /\ RightAt(Memory(tmp, dst, dctx.dict.where), DictEnd, dctx.dict.size, Given, DoneAfter(n, within))
         /\ DictEnd \in Nat /\ DictEnd = dctx.dict.at + dctx.dict.size
         /\ KB64 \in Nat /\ KB64 > 0 /\ Len(tmp) = dctx.cap
         /\ dctx.max + 2 * KB64 <= dctx.cap /\ KB64 <= dctx.max
<1>1. Given \in Nat /\ Given <= dctx.done /\ dctx.done \in Nat
      /\ (dctx.stage # "flushOut" => Given = dctx.done)
      /\ (dctx.stage = "flushOut" => dctx.done = Given + dctx.size - dctx.start)
  BY GivenIs DEF Handing, Shapes, IsDctx
<1>2. KB64 \in Nat /\ KB64 > 0
  BY HistoryAssumption
<1>3. /\ DoneAfter(n, within) \in Nat /\ Given + n <= DoneAfter(n, within) /\ dctx.done <= DoneAfter(n, within)
      /\ ~ within => DoneAfter(n, within) = Given + n
  <2>1. CASE within
    BY <1>1, <2>1, SMT DEF Handing, DoneAfter, Shapes, IsDctx
  <2>2. CASE ~ within
    BY <1>1, <2>2, SMT DEF Handing, DoneAfter
  <2> QED BY <2>1, <2>2
<1>4. DictEnd \in Nat /\ DictEnd = dctx.dict.at + dctx.dict.size /\ dctx.dict.size \in Int /\ DictEnd \in Int
  BY SMTT(60) DEF Handing, Shapes, IsDctx, IsDict, DictEnd
<1>5. RightAt(Memory(tmp, dst, dctx.dict.where), DictEnd, dctx.dict.size, Given, dctx.done)
  BY DEF Handing, Remembered
<1>6. RightAt(Memory(tmp, dst, dctx.dict.where), DictEnd, dctx.dict.size, Given, DoneAfter(n, within))
  BY <1>1, <1>3, <1>4, <1>5, Narrowed
<1>7. Len(tmp) = dctx.cap /\ dctx.max + 2 * KB64 <= dctx.cap /\ KB64 <= dctx.max
  BY <1>2, SMTT(60) DEF Handing, Allocated, Needed, Shapes, IsDctx
<1> QED BY <1>1, <1>2, <1>3, <1>4, <1>6, <1>7

\* The destination goes on where the dictionary ends.
LEMMA UpdateContinued ==
  ASSUME NEW n \in Nat, NEW within \in BOOLEAN, Handing(n, within),
         NEW d, d = IF dctx.dict.size = 0 THEN Dict(call.buf, Len(dst[call.buf]), 0) ELSE dctx.dict,
         d.where = call.buf, d.at + d.size = Len(dst[call.buf])
  PROVE  GoodUpdate([d EXCEPT !.size = @ + n], tmp, n, within, DoneAfter(n, within))
<1> DEFINE b == call.buf
<1> DEFINE p == Len(dst[b])
<1> DEFINE g == Given
<1> DEFINE D == DoneAfter(n, within)
<1> DEFINE w == Written(g, n)
<1> DEFINE e == [d EXCEPT !.size = @ + n]
<1>1. /\ b \in {1, 2} /\ p \in Nat /\ tmp \in Seq(Int) /\ g \in Nat /\ D \in Nat
      /\ \A a \in 0 .. p - 1 : In(w[b], a) = In(dst[b], a)
      /\ \A j \in 0 .. n - 1 : In(w[b], p + j) = g + j
  BY HandingFacts, WrittenIs DEF Handing, Shapes, IsCall
<1>2. IsDict(d)
  <2>1. IsDict(Dict(b, p, 0))
    BY <1>1, SMT DEF IsDict, Dict
  <2> QED BY <2>1 DEF Handing, Shapes, IsDctx
<1>3. RightAt(dst[b], p, d.size, g, D)
  <2>0. RightAt(Memory(tmp, dst, dctx.dict.where), DictEnd, dctx.dict.size, g, D)
    BY HandingFacts
  <2>1. CASE dctx.dict.size = 0
    <3>1. \A k \in 1 .. g : ~ (g - k >= D - KB64)
      <4>1. SUFFICES ASSUME NEW k \in 1 .. g, g - k >= D - KB64 PROVE FALSE
        OBVIOUS
      <4>2. k <= 0
        BY <2>0, <2>1, <4>1 DEF RightAt
      <4> QED BY <4>2, SMT
    <3> QED BY <3>1 DEF RightAt
  <2>2. CASE dctx.dict.size # 0
    <3>1. d = dctx.dict /\ DictEnd = p /\ Memory(tmp, dst, d.where) = dst[b]
      BY <1>1, <2>2 DEF DictEnd, Memory, Tmp, NULL
    <3> QED BY <2>0, <3>1
  <2> QED BY <2>1, <2>2
<1>4. DOMAIN e = {"where", "at", "size"} /\ e.where = b /\ e.at = d.at /\ e.size = d.size + n
  BY <1>2 DEF IsDict
<1>5. e.at + e.size = p + n /\ d.size \in Nat /\ d.at \in Nat /\ p - d.size \in Nat
  BY <1>2, <1>4, SMT DEF IsDict
<1> HIDE DEF e, w, p, D, g
<1>6. RightAt(w[b], p + n, d.size + n, g + n, D)
  <2>1. \A x \in p - d.size .. p - 1 : In(w[b], x) = In(dst[b], x)
    BY <1>1, <1>5, SMT
  <2>2. d.size >= 0 /\ d.size \in Int /\ p \in Int
    BY <1>1, <1>5, SMT
  <2> QED BY <1>1, <1>3, <2>1, <2>2, Extended
<1>7. Memory(tmp, w, e.where) = w[b] /\ e.where # Tmp
  BY <1>1, <1>4 DEF Memory, Tmp, NULL
<1>8. IsDict(e)
  BY <1>1, <1>4, <1>5, SMTT(60) DEF IsDict
<1>9. RightAt(Memory(tmp, w, e.where), e.at + e.size, e.size, g + n, D)
  BY <1>4, <1>5, <1>6, <1>7
<1>10. GoodUpdate(e, tmp, n, within, D)
  BY <1>1, <1>4, <1>7, <1>8, <1>9 DEF GoodUpdate, w, g
<1> QED BY <1>10 DEF e, D

\* The destination holds all that counts.
LEMMA UpdateAnew ==
  ASSUME NEW n \in Nat, NEW within \in BOOLEAN, Handing(n, within),
         NEW held, held = Len(dst[call.buf]) - call.start + n, held >= KB64
  PROVE  GoodUpdate(Dict(call.buf, call.start, held), tmp, n, within, DoneAfter(n, within))
<1> DEFINE b == call.buf
<1> DEFINE p == Len(dst[b])
<1> DEFINE g == Given
<1> DEFINE D == DoneAfter(n, within)
<1> DEFINE w == Written(g, n)
<1> DEFINE st == call.start
<1> DEFINE e == Dict(b, st, held)
<1>1. /\ b \in {1, 2} /\ p \in Nat /\ tmp \in Seq(Int) /\ st \in Nat
      /\ \A a \in 0 .. p - 1 : In(w[b], a) = In(dst[b], a)
      /\ \A j \in 0 .. n - 1 : In(w[b], p + j) = g + j
  BY WrittenIs DEF Handing, Shapes, IsCall
<1>2. g \in Nat /\ D \in Nat /\ g + n <= D /\ KB64 \in Nat
  BY HandingFacts
<1>3. st <= p /\ \A j \in 1 .. p - st : In(dst[b], p - j) = g - j
  BY DEF Handing, Delivered
<1>4. held = p - st + n
  OBVIOUS
<1>5. e.where = b /\ e.at = st /\ e.size = held /\ IsDict(e) /\ e.where # Tmp /\ Memory(tmp, w, e.where) = w[b]
  <2>1. held \in Nat
    BY <1>1, <1>3, <1>4, SMT
  <2> QED BY <1>1, <2>1 DEF Dict, IsDict, Memory, Tmp, NULL
<1> HIDE DEF e, w, p, D, g, st
<1>6. RightAt(w[b], st + held, held, g + n, D)
  <2>1. SUFFICES ASSUME NEW k \in 1 .. g + n, (g + n) - k >= D - KB64
                 PROVE  k <= held /\ In(w[b], (st + held) - k) = (g + n) - k
    BY DEF RightAt
  <2>2. k <= held /\ (st + held) - k = p + n - k /\ (g + n) - k = g + n - k
    <3>1. k <= KB64
      BY <1>2, <2>1, SMT
    <3>2. (st + held) - k = p + n - k /\ (g + n) - k = g + n - k
      BY <1>1, <1>2, <1>4, SMT
    <3> QED BY <1>1, <1>2, <1>4, <3>1, <3>2, SMT
  <2>3. CASE k <= n
    <3>1. n - k \in 0 .. n - 1 /\ p + (n - k) = p + n - k /\ g + (n - k) = g + n - k
      BY <1>1, <1>2, <2>3, SMT
    <3>2. In(w[b], p + (n - k)) = g + (n - k)
      BY <1>1, <3>1
    <3> QED BY <2>2, <3>1, <3>2
  <2>4. CASE k > n
    <3>1. k - n \in 1 .. p - st /\ p - (k - n) \in 0 .. p - 1 /\ p - (k - n) = p + n - k /\ g - (k - n) = g + n - k
      BY <1>1, <1>2, <1>3, <1>4, <2>2, <2>4, SMT
    <3>2. In(w[b], p - (k - n)) = In(dst[b], p - (k - n)) /\ In(dst[b], p - (k - n)) = g - (k - n)
      BY <1>1, <1>3, <3>1
    <3> QED BY <2>2, <3>1, <3>2
  <2> QED BY <2>3, <2>4, SMT
<1>7. GoodUpdate(e, tmp, n, within, D)
  BY <1>1, <1>5, <1>6 DEF GoodUpdate, w, g
<1> QED BY <1>7 DEF e, D, st

\* The block follows the dictionary in tmpOut.
LEMMA UpdateWithin ==
  ASSUME NEW n \in Nat, Handing(n, TRUE), dctx.dict.where = Tmp
  PROVE  GoodUpdate([dctx.dict EXCEPT !.size = @ + n], tmp, n, TRUE, DoneAfter(n, TRUE))
<1> DEFINE g == Given
<1> DEFINE D == DoneAfter(n, TRUE)
<1> DEFINE w == Written(g, n)
<1> DEFINE d == dctx.dict
<1> DEFINE e == [d EXCEPT !.size = @ + n]
<1>1. /\ g \in Nat /\ D \in Nat /\ RightAt(Memory(tmp, dst, d.where), DictEnd, d.size, g, D)
      /\ DictEnd = d.at + d.size
  BY HandingFacts
<1>2. /\ dctx.stage = "flushOut" /\ n <= dctx.size - dctx.start /\ tmp \in Seq(Int) /\ IsDict(d)
      /\ d.at = 0 /\ d.size = dctx.out + dctx.start /\ dctx.start \in Nat /\ dctx.size \in Nat /\ dctx.out \in Nat
      /\ dctx.done \in Nat /\ dctx.cap \in Nat /\ dctx.max \in Nat
      /\ dctx.out + dctx.max <= dctx.cap /\ dctx.size <= dctx.max /\ dctx.done = g + dctx.size - dctx.start
      /\ \A k \in 0 .. dctx.size - 1 : In(tmp, dctx.out + k) = dctx.done - dctx.size + k
  BY GivenIs DEF Handing, Shapes, IsDctx, Placed, Allocated, Block
<1>3. Memory(tmp, dst, d.where) = tmp /\ Memory(tmp, w, d.where) = tmp
  BY DEF Memory
<1>4. \A j \in 0 .. n - 1 : In(tmp, d.size + j) = g + j
  <2>1. TAKE j \in 0 .. n - 1
  <2> HIDE DEF d, g
  <2>2. /\ dctx.start + j \in 0 .. dctx.size - 1 /\ dctx.out + (dctx.start + j) = d.size + j
        /\ dctx.done - dctx.size + (dctx.start + j) = g + j
    <3>1. dctx.start + j \in 0 .. dctx.size - 1
      BY <1>2, SMTT(60)
    <3>2. dctx.out + (dctx.start + j) = d.size + j
      BY <1>2, SMT
    <3>3. dctx.done - dctx.size + (dctx.start + j) = g + j
      BY <1>1, <1>2, SMTT(60)
    <3> QED BY <3>1, <3>2, <3>3
  <2>3. In(tmp, dctx.out + (dctx.start + j)) = dctx.done - dctx.size + (dctx.start + j)
    BY <1>2, <2>2
  <2> QED BY <2>2, <2>3
<1>5. e.where = Tmp /\ e.at = 0 /\ e.size = d.size + n /\ DOMAIN e = {"where", "at", "size"}
  BY <1>2 DEF IsDict
<1>6. DictEnd = d.size /\ d.size \in Nat /\ e.at + e.size = d.size + n
  BY <1>1, <1>2, <1>5, SMT
<1> HIDE DEF e, w, D, g, d
<1>7. RightAt(tmp, d.size + n, d.size + n, g + n, D)
  <2>1. RightAt(tmp, d.size, d.size, g, D)
    BY <1>1, <1>3, <1>6
  <2>2. d.size \in Int /\ d.size >= 0
    BY <1>6, SMT
  <2> QED BY <1>1, <1>4, <2>1, <2>2, Extended
<1>8. IsDict(e)
  BY <1>5, <1>6, SMT DEF IsDict, Tmp
<1>9. e.size = dctx.out + dctx.start + n /\ e.size <= dctx.cap
  BY <1>2, <1>5, <1>6, SMT
<1>10. Memory(tmp, w, e.where) = tmp
  BY <1>5 DEF Memory
<1>11. GoodUpdate(e, tmp, n, TRUE, D)
  BY <1>2, <1>5, <1>6, <1>7, <1>8, <1>9, <1>10 DEF GoodUpdate, w, g
<1> QED BY <1>11 DEF e, D, d

LEMMA LeastIs ==
  ASSUME NEW a \in Int, NEW b \in Int
  PROVE  Least(a, b) \in Int /\ Least(a, b) <= a /\ Least(a, b) <= b /\ (Least(a, b) = a \/ Least(a, b) = b)
BY SMT DEF Least

\* History copied in front of the block that waits.
LEMMA FrontIs ==
  ASSUME NEW n \in Nat, Handing(n, TRUE), dctx.dict.where # Tmp,
         NEW t, t = FrontOfTmpOut(dctx.dict, DictEnd - dctx.start)
  PROVE  /\ t \in Seq(Int) /\ Len(t) = Len(tmp)
         /\ \A x \in Nat : dctx.out <= x => In(t, x) = In(tmp, x)
         /\ RightAt(t, dctx.out + dctx.start + n, dctx.out + dctx.start + n, Given + n, dctx.done)
         /\ dctx.out + dctx.start + n \in Nat /\ dctx.out + dctx.start + n <= dctx.cap
<1> DEFINE g    == Given
<1> DEFINE done == dctx.done
<1> DEFINE out  == dctx.out
<1> DEFINE st   == dctx.start
<1> DEFINE size == dctx.size
<1> DEFINE e    == DictEnd
<1> DEFINE m    == Memory(tmp, dst, dctx.dict.where)
<1> DEFINE cs   == IF size > KB64 THEN 0 ELSE Least(KB64 - size, out)
<1>1. /\ g \in Nat /\ e \in Nat /\ KB64 \in Nat /\ Len(tmp) = dctx.cap /\ KB64 > 0
      /\ RightAt(m, e, dctx.dict.size, g, done)
  BY HandingFacts DEF DoneAfter
<1>2. /\ n <= size - st /\ tmp \in Seq(Int) /\ out \in Nat /\ st \in Nat /\ size \in Nat /\ done \in Nat
      /\ dctx.max \in Nat /\ dctx.cap \in Nat
      /\ out + dctx.max <= dctx.cap /\ size <= dctx.max /\ done = g + (size - st)
      /\ \A k \in 0 .. size - 1 : In(tmp, out + k) = done - size + k
      /\ \A k \in 1 .. g : g - k >= done - KB64 => k <= out + st
  BY GivenIs DEF Handing, Shapes, IsDctx, Allocated, Block, Remembered
<1>3. m \in Seq(Int)
  BY MemoryIs DEF Handing, Shapes, IsDctx, IsDict
<1>4. /\ cs \in 0 .. out
      /\ size <= KB64 => cs = KB64 - size \/ cs = out
  <2>1. KB64 \in Nat /\ size \in Nat /\ out \in Nat
    BY <1>1, <1>2
  <2> DEFINE l == Least(KB64 - size, out)
  <2> HIDE DEF size, out
  <2>2. l \in Int /\ l <= KB64 - size /\ l <= out /\ (l = KB64 - size \/ l = out)
    <3>1. KB64 - size \in Int /\ out \in Int
      BY <2>1, SMT
    <3> QED BY <3>1, LeastIs
  <2>3. cs = IF size > KB64 THEN 0 ELSE l
    OBVIOUS
  <2> HIDE DEF l, cs
  <2> QED BY <2>1, <2>2, <2>3, SMT
<1>5. size <= KB64 => cs = KB64 - size \/ cs = out
  BY <1>4
<1>6. t = Copied(out - cs, dctx.dict.where, (e - st) - cs, cs)
  BY DEF FrontOfTmpOut
<1> HIDE DEF cs, m, e, size, st, out, done, g
<1>7. out - cs \in Nat /\ (e - st) - cs \in Int /\ cs \in Nat /\ (out - cs) + cs = out /\ out <= Len(tmp)
  <2>1. out <= dctx.cap
    BY <1>2, SMT
  <2>2. out - cs \in Nat /\ (e - st) - cs \in Int /\ cs \in Nat /\ (out - cs) + cs = out
    BY <1>1, <1>2, <1>4, SMT
  <2> QED BY <1>1, <2>1, <2>2
<1>8. /\ t \in Seq(Int) /\ Len(t) = Len(tmp)
      /\ \A j \in 0 .. cs - 1 : In(t, (out - cs) + j) = In(m, ((e - st) - cs) + j)
      /\ \A x \in Int : (x < out - cs \/ out <= x) => In(t, x) = In(tmp, x)
  <2> DEFINE to == out - cs
  <2> DEFINE a  == (e - st) - cs
  <2>1. to \in Nat /\ a \in Int /\ cs \in Nat /\ to + cs = out /\ to + cs <= Len(tmp)
    BY <1>7
  <2>2. t = Copied(to, dctx.dict.where, a, cs)
    BY <1>6
  <2>3. Memory(tmp, dst, dctx.dict.where) \in Seq(Int) /\ tmp \in Seq(Int)
    BY <1>2, <1>3 DEF m
  <2> HIDE DEF to, a
  <2>4. CopyOf(Copied(to, dctx.dict.where, a, cs), Memory(tmp, dst, dctx.dict.where), to, a, cs)
    <3>1. dctx.dict.where # Tmp \/ a + cs <= to \/ to + cs <= a
      OBVIOUS
    <3> QED BY <2>1, <2>3, <3>1, CopiedIs
  <2>6. CopyOf(t, m, to, a, cs)
    BY <2>2, <2>4 DEF m
  <2>5. /\ t \in Seq(Int) /\ Len(t) = Len(tmp)
        /\ \A j \in 0 .. cs - 1 : In(t, to + j) = In(m, a + j)
        /\ \A x \in Int : (x < to \/ out <= x) => In(t, x) = In(tmp, x)
    BY <2>1, <2>6 DEF CopyOf
  <2> QED BY <2>5 DEF to, a
<1>9. \A x \in Nat : out <= x => In(t, x) = In(tmp, x)
  BY <1>8
<1> DEFINE E == out + st + n
<1>10. E \in Nat /\ E <= dctx.cap
  BY <1>2, SMT
<1>11. RightAt(t, E, E, g + n, done)
  <2>1. SUFFICES ASSUME NEW k \in 1 .. g + n, (g + n) - k >= done - KB64
                 PROVE  k <= E /\ In(t, E - k) = (g + n) - k
    BY DEF RightAt
  <2> HIDE DEF E
  <2>2. E = out + st + n /\ E \in Nat
    BY <1>10 DEF E
  <2>3. CASE k <= st + n
    <3>1. /\ (st + n) - k \in 0 .. size - 1 /\ out + ((st + n) - k) = E - k
          /\ done - size + ((st + n) - k) = (g + n) - k /\ out <= E - k /\ E - k \in Nat /\ k <= E
      BY <1>1, <1>2, <2>1, <2>2, <2>3, SMT
    <3>2. In(tmp, out + ((st + n) - k)) = done - size + ((st + n) - k)
      BY <1>2, <3>1
    <3> QED BY <1>9, <3>1, <3>2
  <2>4. CASE k > st + n
    <3>1. k - n \in 1 .. g /\ g - (k - n) >= done - KB64 /\ g - (k - n) = (g + n) - k
      BY <1>1, <1>2, <2>1, <2>4, SMT
    <3>2. k - n <= out + st /\ In(m, e - (k - n)) = g - (k - n)
      BY <1>1, <1>2, <3>1 DEF RightAt
    <3> DEFINE i == k - n - st
    <3>3. i \in 1 .. cs
      <4>1. size <= KB64 /\ i <= KB64 - size /\ i <= out /\ i >= 1 /\ i \in Int
        BY <1>1, <1>2, <2>1, <2>2, <2>4, <3>1, <3>2, SMT
      <4> QED BY <1>5, <1>7, <4>1, SMT
    <3>4. /\ cs - i \in 0 .. cs - 1 /\ (out - cs) + (cs - i) = E - k
          /\ ((e - st) - cs) + (cs - i) = e - (k - n) /\ k <= E
      BY <1>1, <1>2, <1>7, <2>1, <2>2, <3>2, <3>3, SMT
    <3>5. In(t, (out - cs) + (cs - i)) = In(m, ((e - st) - cs) + (cs - i))
      BY <1>8, <3>4
    <3> QED BY <3>1, <3>2, <3>4, <3>5
  <2> QED BY <1>2, <2>1, <2>3, <2>4, SMT
<1> QED BY <1>8, <1>9, <1>10, <1>11 DEF E, g, done, out, st

LEMMA UpdateInFront ==
  ASSUME NEW n \in Nat, Handing(n, TRUE), dctx.dict.where # Tmp
  PROVE  GoodUpdate(Dict(Tmp, 0, dctx.out + dctx.start + n), FrontOfTmpOut(dctx.dict, DictEnd - dctx.start),
                    n, TRUE, DoneAfter(n, TRUE))
<1> DEFINE t == FrontOfTmpOut(dctx.dict, DictEnd - dctx.start)
<1> DEFINE E == dctx.out + dctx.start + n
<1> DEFINE e == Dict(Tmp, 0, E)
<1>1. /\ t \in Seq(Int) /\ Len(t) = Len(tmp)
      /\ \A x \in Nat : dctx.out <= x => In(t, x) = In(tmp, x)
      /\ RightAt(t, E, E, Given + n, dctx.done)
      /\ E \in Nat /\ E <= dctx.cap
  BY FrontIs
<1>2. e.where = Tmp /\ e.at = 0 /\ e.size = E /\ e.at + e.size = E /\ IsDict(e)
  BY <1>1, SMT DEF Dict, IsDict, Tmp
<1>3. Memory(t, Written(Given, n), e.where) = t
  BY <1>2 DEF Memory
<1>4. DoneAfter(n, TRUE) = dctx.done
  BY DEF DoneAfter
<1> HIDE DEF e, t
<1>5. GoodUpdate(e, t, n, TRUE, DoneAfter(n, TRUE))
  BY <1>1, <1>2, <1>3, <1>4 DEF GoodUpdate
<1> QED BY <1>5 DEF e, t

\* The last `kept` bytes at the front of tmpOutBuffer, and n new ones behind them.
LEMMA UpdateAtFront ==
  ASSUME NEW n \in Nat, Handing(n, FALSE), NEW kept \in Nat, kept + n <= KB64,
         dctx.dict.where = Tmp => kept <= dctx.dict.size - kept,
         kept = KB64 - n \/ kept = dctx.dict.size
  PROVE  GoodUpdate(Dict(Tmp, 0, kept + n),
                    Joined(Copied(0, dctx.dict.where, DictEnd - kept, kept), kept, Given, n),
                    n, FALSE, DoneAfter(n, FALSE))
<1> DEFINE t == Copied(0, dctx.dict.where, DictEnd - kept, kept)
<1> DEFINE u == Joined(t, kept, Given, n)
<1> DEFINE g == Given
<1> DEFINE D == DoneAfter(n, FALSE)
<1> DEFINE m == Memory(tmp, dst, dctx.dict.where)
<1> DEFINE e == Dict(Tmp, 0, kept + n)
<1>1. /\ g \in Nat /\ D \in Nat /\ D = g + n /\ DictEnd \in Nat /\ KB64 \in Nat /\ Len(tmp) = dctx.cap
      /\ RightAt(m, DictEnd, dctx.dict.size, g, D) /\ DictEnd = dctx.dict.at + dctx.dict.size
      /\ dctx.max + 2 * KB64 <= dctx.cap
  BY HandingFacts
<1>2. tmp \in Seq(Int) /\ dctx.max \in Nat /\ dctx.cap \in Nat /\ dctx.dict.size \in Nat
      /\ (dctx.dict.where = Tmp => dctx.dict.at = 0)
  BY DEF Handing, Shapes, IsDctx, IsDict, Placed
<1>3. m \in Seq(Int)
  BY MemoryIs DEF Handing, Shapes, IsDctx, IsDict
<1>4. 0 + kept <= Len(tmp) /\ kept + n <= Len(tmp) /\ DictEnd - kept \in Int /\ 0 \in Nat
      /\ (dctx.dict.where = Tmp => 0 + kept <= DictEnd - kept)
  <2>1. kept + n <= dctx.cap
    <3>0. KB64 <= dctx.cap
      BY <1>1, <1>2, SMT
    <3> QED BY <1>1, <1>2, <3>0, SMT
  <2>2. 0 + kept = kept /\ kept <= dctx.cap /\ DictEnd - kept \in Int /\ 0 \in Nat
    BY <1>1, <1>2, <2>1, SMT
  <2>3. dctx.dict.where = Tmp => DictEnd = dctx.dict.size
    BY <1>1, <1>2, SMT
  <2> QED BY <1>1, <2>1, <2>2, <2>3
<1>5. /\ t \in Seq(Int) /\ Len(t) = Len(tmp)
      /\ \A j \in 0 .. kept - 1 : In(t, 0 + j) = In(m, (DictEnd - kept) + j)
  <2>1. CopyOf(t, m, 0, DictEnd - kept, kept)
    BY <1>2, <1>3, <1>4, CopiedIs
  <2> HIDE DEF t, m
  <2> QED BY <2>1 DEF CopyOf
<1>6. \A k \in 1 .. g : g - k >= D - KB64 => k <= kept
  <2>1. TAKE k \in 1 .. g
  <2>2. HAVE g - k >= D - KB64
  <2>3. k <= dctx.dict.size
    BY <1>1, <2>2 DEF RightAt
  <2>4. k <= KB64 - n
    <3>1. g - k >= (g + n) - KB64
      BY <1>1, <2>2
    <3> HIDE DEF g
    <3> QED BY <1>1, <3>1, SMT
  <2> QED BY <2>3, <2>4
<1> HIDE DEF t, u, D, m, g
<1>7. RightAt(t, 0 + kept, kept, g, D)
  <2>1. DictEnd \in Int /\ 0 \in Int /\ dctx.dict.size \in Int /\ kept \in Int /\ kept <= kept
    BY <1>1, <1>2, SMT
  <2> DEFINE z == 0
  <2>2. z \in Int /\ \A j \in 0 .. kept - 1 : In(t, z + j) = In(m, DictEnd - kept + j)
    BY <1>5
  <2> HIDE DEF z
  <2>3. g \in Nat /\ D \in Nat /\ RightAt(m, DictEnd, dctx.dict.size, g, D)
    BY <1>1
  <2> DEFINE sz  == dctx.dict.size
  <2> DEFINE end == DictEnd
  <2>5. end \in Int /\ z \in Int /\ sz \in Int /\ kept \in Nat /\ kept \in Int /\ g \in Nat /\ D \in Nat
    BY <2>1, <2>2, <2>3
  <2>6. RightAt(m, end, sz, g, D)
    BY <2>3
  <2>7. kept <= kept
    BY <2>1
  <2>8. \A k \in 1 .. g : g - k >= D - KB64 => k <= kept
    BY <1>6
  <2>9. \A j \in 0 .. kept - 1 : In(t, z + j) = In(m, end - kept + j)
    BY <2>2
  <2> HIDE DEF sz, end
  <2>4. RightAt(t, z + kept, kept, g, D)
    BY <2>5, <2>6, <2>7, <2>8, <2>9, Moved
  <2> QED BY <2>4 DEF z
<1>8. /\ u \in Seq(Int) /\ Len(u) = Len(t)
      /\ \A j \in 0 .. n - 1 : In(u, kept + j) = g + j
      /\ \A x \in Int : (x < kept \/ kept + n <= x) => In(u, x) = In(t, x)
  <2>1. kept + n <= Len(t) /\ g \in Int
    BY <1>1, <1>4, <1>5
  <2>2. u = Joined(t, kept, g, n)
    BY DEF u, g
  <2> QED BY <1>5, <2>1, <2>2, JoinedIs, ZenonT(60)
<1>9. RightAt(u, kept + n, kept + n, g + n, D)
  <2>1. \A x \in kept - kept .. kept - 1 : In(u, x) = In(t, x)
    BY <1>8, SMT
  <2>2. RightAt(t, kept, kept, g, D) /\ kept \in Int /\ kept >= 0
    BY <1>7, SMT
  <2> QED BY <1>1, <1>8, <2>1, <2>2, Extended
<1>10. e.where = Tmp /\ e.at = 0 /\ e.size = kept + n /\ e.at + e.size = kept + n /\ IsDict(e)
  BY SMT DEF Dict, IsDict, Tmp
<1>11. Memory(u, Written(g, n), e.where) = u /\ e.size <= dctx.cap
  BY <1>1, <1>4, <1>10 DEF Memory
<1> HIDE DEF e
<1>12. GoodUpdate(e, u, n, FALSE, D)
  BY <1>5, <1>8, <1>9, <1>10, <1>11 DEF GoodUpdate, g
<1> QED BY <1>12 DEF e, u, t, D

\* n bytes behind the dictionary in tmpOutBuffer.
LEMMA UpdateBehind ==
  ASSUME NEW n \in Nat, Handing(n, FALSE), dctx.dict.where = Tmp, dctx.dict.size + n <= dctx.cap
  PROVE  GoodUpdate([dctx.dict EXCEPT !.size = @ + n], Joined(tmp, dctx.dict.size, Given, n),
                    n, FALSE, DoneAfter(n, FALSE))
<1> DEFINE d == dctx.dict
<1> DEFINE u == Joined(tmp, d.size, Given, n)
<1> DEFINE g == Given
<1> DEFINE D == DoneAfter(n, FALSE)
<1> DEFINE e == [d EXCEPT !.size = @ + n]
<1>1. /\ g \in Nat /\ D \in Nat /\ Len(tmp) = dctx.cap
      /\ RightAt(Memory(tmp, dst, d.where), DictEnd, d.size, g, D) /\ DictEnd = d.at + d.size
  BY HandingFacts
<1>2. tmp \in Seq(Int) /\ IsDict(d) /\ d.at = 0 /\ d.size \in Nat
  BY DEF Handing, Shapes, IsDctx, IsDict, Placed
<1>3. RightAt(tmp, d.size, d.size, g, D)
  <2>1. DictEnd = d.size /\ Memory(tmp, dst, d.where) = tmp
    BY <1>1, <1>2, SMT DEF Memory
  <2> QED BY <1>1, <2>1
<1>4. /\ u \in Seq(Int) /\ Len(u) = Len(tmp)
      /\ \A j \in 0 .. n - 1 : In(u, d.size + j) = g + j
      /\ \A x \in Int : (x < d.size \/ d.size + n <= x) => In(u, x) = In(tmp, x)
  <2>1. g \in Int /\ d.size + n <= Len(tmp) /\ d.size \in Nat
    BY <1>1, <1>2
  <2> HIDE DEF g, d
  <2>2. u = Joined(tmp, d.size, g, n)
    BY DEF g, d
  <2> HIDE DEF u
  <2>3. /\ Joined(tmp, d.size, g, n) \in Seq(Int) /\ Len(Joined(tmp, d.size, g, n)) = Len(tmp)
        /\ \A j \in 0 .. n - 1 : In(Joined(tmp, d.size, g, n), d.size + j) = g + j
        /\ \A x \in Int : (x < d.size \/ d.size + n <= x) => In(Joined(tmp, d.size, g, n), x) = In(tmp, x)
    BY <1>2, <2>1, JoinedIs, SMTT(60)
  <2> QED BY <2>2, <2>3
<1>5. e.where = Tmp /\ e.at = 0 /\ e.size = d.size + n /\ DOMAIN e = {"where", "at", "size"}
  BY <1>2 DEF IsDict
<1> HIDE DEF d, u, g, D, e
<1>6. RightAt(u, d.size + n, d.size + n, g + n, D)
  <2>1. \A x \in d.size - d.size .. d.size - 1 : In(u, x) = In(tmp, x)
    BY <1>2, <1>4, SMT
  <2>2. d.size \in Int /\ d.size >= 0
    BY <1>2, SMT
  <2> QED BY <1>1, <1>3, <1>4, <2>1, <2>2, Extended
<1>7. IsDict(e) /\ e.at + e.size = d.size + n
  BY <1>2, <1>5, SMT DEF IsDict, Tmp
<1>8. Memory(u, Written(g, n), e.where) = u /\ e.size <= dctx.cap
  BY <1>5 DEF Memory, d
<1>9. GoodUpdate(e, u, n, FALSE, D)
  BY <1>4, <1>5, <1>6, <1>7, <1>8 DEF GoodUpdate, g
<1> QED BY <1>9 DEF e, u, D, d

\* The library's function is one of the above.
LEMMA UpdateIsGood ==
  ASSUME NEW n \in Nat, NEW within \in BOOLEAN, Handing(n, within)
  PROVE  LET u == UpdateDict(Given, n, within) IN GoodUpdate(u.dict, u.tmp, n, within, DoneAfter(n, within))
<1> DEFINE b     == call.buf
<1> DEFINE p     == Len(dst[b])
<1> DEFINE d     == IF dctx.dict.size = 0 THEN Dict(b, p, 0) ELSE dctx.dict
<1> DEFINE held  == p - call.start + n
<1> DEFINE shift == KB64 - n
<1> DEFINE kept  == Least(KB64 - n, d.size)
<1> DEFINE u     == UpdateDict(Given, n, within)
<1> DEFINE OK(dict, t) == GoodUpdate(dict, t, n, within, DoneAfter(n, within))
<1>1. /\ b \in {1, 2} /\ p \in Nat /\ IsDict(dctx.dict) /\ dctx.dict.size \in Nat /\ dctx.dict.at \in Nat /\ call.start \in Nat
      /\ KB64 \in Nat /\ dctx.max \in Nat /\ dctx.cap \in Nat /\ dctx.start \in Nat /\ dctx.dict.where \in {Tmp, 1, 2, NULL}
      /\ DictEnd = dctx.dict.at + dctx.dict.size /\ DictEnd \in Nat
      /\ dctx.max + 2 * KB64 <= dctx.cap /\ KB64 <= dctx.max
      /\ (dctx.dict.where = Tmp => dctx.dict.at = 0) /\ (dctx.dict.where = NULL => dctx.dict.size = 0)
      /\ call.start <= p
  BY HandingFacts, WrittenIs DEF Handing, Shapes, IsCall, IsDctx, IsDict, Placed, Delivered
<1>2. CASE d.where = b /\ d.at + d.size = p
  <2>1. u.dict = [d EXCEPT !.size = @ + n] /\ u.tmp = tmp
    BY <1>2, Zenon DEF UpdateDict
  <2>2. OK([d EXCEPT !.size = @ + n], tmp)
    BY <1>2, UpdateContinued
  <2> QED BY <2>1, <2>2, Zenon
<1> DEFINE First == d.where = b /\ d.at + d.size = p
<1>3. ASSUME ~ First
      PROVE  d = dctx.dict /\ dctx.dict.size # 0
  <2>1. dctx.dict.size = 0 => d.where = b /\ d.at + d.size = p
    BY <1>1, SMT DEF Dict
  <2> QED BY <1>3, <2>1
<1>4. CASE ~ First /\ LargeEnough(held)
  <2>1. u.dict = Dict(b, call.start, held) /\ u.tmp = tmp
    BY <1>4, Zenon DEF UpdateDict
  <2>2. OK(Dict(b, call.start, held), tmp)
    BY <1>4, UpdateAnew DEF LargeEnough
  <2> QED BY <2>1, <2>2, Zenon
<1>5. CASE ~ First /\ ~ LargeEnough(held) /\ within /\ d.where = Tmp
  <2>1. u.dict = [d EXCEPT !.size = @ + n] /\ u.tmp = tmp
    BY <1>5, Zenon DEF UpdateDict
  <2>2. d = dctx.dict /\ within = TRUE
    BY <1>3, <1>5
  <2>3. OK([dctx.dict EXCEPT !.size = @ + n], tmp)
    BY <1>5, <2>2, UpdateWithin
  <2> QED BY <2>1, <2>2, <2>3, Zenon
<1>6. CASE ~ First /\ ~ LargeEnough(held) /\ within /\ d.where # Tmp
  <2>1. u.dict = Dict(Tmp, 0, dctx.out + dctx.start + n) /\ u.tmp = FrontOfTmpOut(d, d.at + d.size - dctx.start)
    BY <1>6, Zenon DEF UpdateDict
  <2>2. d = dctx.dict /\ within = TRUE
    BY <1>3, <1>6
  <2>3. d.at + d.size - dctx.start = DictEnd - dctx.start
    BY <1>1, <2>2, SMTT(60)
  <2>4. OK(Dict(Tmp, 0, dctx.out + dctx.start + n), FrontOfTmpOut(dctx.dict, DictEnd - dctx.start))
    BY <1>6, <2>2, UpdateInFront
  <2> QED BY <2>1, <2>2, <2>3, <2>4, Zenon
<1> DEFINE Behindhand == ~ First /\ ~ LargeEnough(held) /\ ~ within
<1>7. ASSUME Behindhand
      PROVE  /\ d = dctx.dict /\ dctx.dict.size # 0 /\ within = FALSE /\ n < KB64 /\ shift \in Nat /\ shift + n = KB64
             /\ Handing(n, FALSE)
  <2>1. held < KB64
    <3>1. ~ (held >= KB64) /\ held \in Int
      BY <1>1, <1>7, SMTT(60) DEF LargeEnough
    <3> QED BY <1>1, <3>1, SMT
  <2>2. n <= held
    BY <1>1, SMTT(60)
  <2>3. n < KB64 /\ shift \in Nat /\ shift + n = KB64
    BY <1>1, <2>1, <2>2, SMTT(60)
  <2> QED BY <1>3, <1>7, <2>3
<1>8. CASE Behindhand /\ d.where = Tmp /\ d.size + n > dctx.cap
  <2>1. u.dict = Dict(Tmp, 0, shift + n)
        /\ u.tmp = Joined(Copied(0, Tmp, d.size - shift, shift), shift, Given, n)
    BY <1>8, Zenon DEF UpdateDict
  <2>2. d = dctx.dict /\ within = FALSE /\ Handing(n, FALSE) /\ shift \in Nat /\ shift + n = KB64 /\ dctx.dict.where = Tmp
    BY <1>7, <1>8
  <2>3. dctx.dict.size + n > dctx.cap
    BY <1>8, <2>2
  <2>4. d.size - shift = DictEnd - shift
    BY <1>1, <2>2, SMT
  <2>5. shift <= dctx.dict.size - shift
    BY <1>1, <2>2, <2>3, SMTT(60)
  <2>6. shift + n <= KB64 /\ (shift = KB64 - n \/ shift = dctx.dict.size)
    BY <1>1, <2>2
  <2> HIDE DEF shift
  <2>7. GoodUpdate(Dict(Tmp, 0, shift + n),
                   Joined(Copied(0, dctx.dict.where, DictEnd - shift, shift), shift, Given, n),
                   n, FALSE, DoneAfter(n, FALSE))
    BY <2>2, <2>5, <2>6, UpdateAtFront
  <2> QED BY <2>1, <2>2, <2>4, <2>7
<1>9. CASE Behindhand /\ d.where = Tmp /\ ~ (d.size + n > dctx.cap)
  <2>1. u.dict = [d EXCEPT !.size = @ + n] /\ u.tmp = Joined(tmp, d.size, Given, n)
    BY <1>9, Zenon DEF UpdateDict
  <2>2. d = dctx.dict /\ within = FALSE /\ Handing(n, FALSE) /\ dctx.dict.where = Tmp
    BY <1>7, <1>9
  <2>3. dctx.dict.size + n <= dctx.cap
    <3>1. ~ (dctx.dict.size + n > dctx.cap)
      BY <1>9, <2>2
    <3> QED BY <1>1, <3>1, SMT
  <2>4. GoodUpdate([dctx.dict EXCEPT !.size = @ + n], Joined(tmp, dctx.dict.size, Given, n),
                   n, FALSE, DoneAfter(n, FALSE))
    BY <2>2, <2>3, UpdateBehind
  <2> QED BY <2>1, <2>2, <2>4
<1>10. CASE Behindhand /\ d.where # Tmp
  <2>1. u.dict = Dict(Tmp, 0, kept + n)
        /\ u.tmp = Joined(Copied(0, d.where, d.at + d.size - kept, kept), kept, Given, n)
    BY <1>10, Zenon DEF UpdateDict
  <2>2. d = dctx.dict /\ within = FALSE /\ Handing(n, FALSE) /\ shift \in Nat /\ shift + n = KB64 /\ dctx.dict.where # Tmp
    BY <1>7, <1>10
  <2>3. kept = Least(shift, dctx.dict.size)
    BY <2>2
  <2>4. kept \in Nat /\ kept <= shift /\ (kept = shift \/ kept = dctx.dict.size)
    <3> DEFINE sz == dctx.dict.size
    <3>1. shift \in Int /\ sz \in Int /\ sz \in Nat
      BY <1>1, <2>2, SMT
    <3>2. kept = Least(shift, sz)
      BY <2>3
    <3> HIDE DEF sz, shift, kept
    <3>3. kept \in Int /\ kept <= shift /\ (kept = shift \/ kept = sz)
      BY <3>1, <3>2, LeastIs
    <3>4. kept \in Nat
      BY <2>2, <3>1, <3>3, SMT
    <3> QED BY <3>3, <3>4 DEF sz
  <2> DEFINE ds == dctx.dict.size
  <2>0. d.at + d.size - kept = DictEnd - kept
    <3>1. dctx.dict.at \in Int /\ dctx.dict.size \in Int /\ kept \in Int
      BY <1>1, <2>4, SMT
    <3> HIDE DEF kept
    <3>2. dctx.dict.at + dctx.dict.size - kept = (dctx.dict.at + dctx.dict.size) - kept
      BY <3>1, SMT
    <3> QED BY <1>1, <2>2, <3>2
  <2>5. kept + n <= KB64
    <3> HIDE DEF kept
    <3> QED BY <1>1, <2>2, <2>4, SMT
  <2>6. kept = KB64 - n \/ kept = dctx.dict.size
    BY <2>4
  <2> HIDE DEF kept, d, u
  <2>7. GoodUpdate(Dict(Tmp, 0, kept + n),
                   Joined(Copied(0, dctx.dict.where, DictEnd - kept, kept), kept, Given, n),
                   n, FALSE, DoneAfter(n, FALSE))
    BY <2>2, <2>4, <2>5, <2>6, UpdateAtFront
  <2>8. u.tmp = Joined(Copied(0, dctx.dict.where, DictEnd - kept, kept), kept, Given, n)
    BY <2>0, <2>1, <2>2
  <2>9. GoodUpdate(u.dict, u.tmp, n, within, DoneAfter(n, within))
    BY <2>1, <2>2, <2>7, <2>8
  <2> QED BY <2>9 DEF u
<1> HIDE DEF d, held, u
<1> QED BY <1>2, <1>4, <1>5, <1>6, <1>8, <1>9, <1>10 DEF u

-----------------------------------------------------------------------------
(* Steps                                                                     *)

\* What LZ4F_decompress has set when it hands out n bytes: d.
Advanced(d, n, within) ==
  /\ IsDctx(d) /\ d.linked = dctx.linked /\ d.max = dctx.max /\ d.cap = dctx.cap
  /\ d.dict = dctx.dict /\ d.out = dctx.out /\ d.xxh = Taken(d.done)
  /\ IF within THEN /\ d.done = dctx.done /\ d.size = dctx.size /\ d.start = dctx.start + n
                    /\ d.stage = IF n = dctx.size - dctx.start THEN "blockHeader" ELSE "flushOut"
               ELSE d.done = dctx.done + n /\ d.stage \in {"blockHeader", "copyDirect"}

LEMMA EmitKeeps ==
  ASSUME HInv, Reading, call.active, NEW n \in Nat, n <= Room, NEW within \in BOOLEAN,
         IF within THEN dctx.stage = "flushOut" /\ n <= dctx.size - dctx.start ELSE dctx.stage # "flushOut",
         NEW d, Advanced(d, n, within), Emit(d, Given, n, within)
  PROVE  HInv'
<1> DEFINE u == UpdateDict(Given, n, within)
<1> DEFINE b == call.buf
<1> DEFINE g == Given
<1> DEFINE m == dst[b]
<1>1. /\ Shapes /\ Allocated /\ Placed /\ Delivered /\ Block /\ Remembered /\ Hash
  BY DEF HInv
<1>2. /\ dst' = Written(g, n) /\ call' = call /\ frames' = frames
      /\ dctx.linked => dctx' = [d EXCEPT !.dict = u.dict] /\ tmp' = u.tmp
      /\ ~ dctx.linked => dctx' = d /\ tmp' = tmp
  BY DEF Emit, Advanced
<1>3. /\ DOMAIN dctx' = DctxFields /\ dctx'.stage = d.stage /\ dctx'.linked = dctx.linked
      /\ dctx'.max = dctx.max /\ dctx'.cap = dctx.cap /\ dctx'.left = d.left /\ dctx'.out = dctx.out
      /\ dctx'.start = d.start /\ dctx'.size = d.size /\ dctx'.done = d.done /\ dctx'.xxh = d.xxh
      /\ dctx'.dict = IF dctx.linked THEN u.dict ELSE dctx.dict
  <2>1. DOMAIN d = DctxFields
    BY DEF Advanced, IsDctx
  <2>2. CASE dctx.linked
    <3> DEFINE v == u.dict
    <3>1. dctx' = [d EXCEPT !.dict = v]
      BY <1>2, <2>2
    <3> HIDE DEF v
    <3> QED BY <2>1, <2>2, <3>1 DEF DctxFields, Advanced, v
  <2>3. CASE ~ dctx.linked
    BY <1>2, <2>1, <2>3 DEF Advanced
  <2> QED BY <2>2, <2>3
<1>4. /\ g \in Nat /\ KB64 \in Nat /\ call.start \in Nat /\ call.room \in Nat /\ Len(m) \in Nat /\ Len(dst'[b]) = Len(m) + n
      /\ dctx.done \in Nat /\ dctx.size \in Nat /\ dctx.start \in Nat /\ dctx.out \in Nat /\ dctx.cap \in Nat /\ dctx.max \in Nat
      /\ dctx.stage # "flushOut" => g = dctx.done
      /\ dctx.stage = "flushOut" => dctx.done = g + dctx.size - dctx.start
  <2>1. g \in Nat /\ (dctx.stage # "flushOut" => g = dctx.done)
        /\ (dctx.stage = "flushOut" => dctx.done = g + dctx.size - dctx.start)
    BY <1>1, GivenIs
  <2>2. Len(m) \in Nat /\ Len(dst'[b]) = Len(m) + n
    BY <1>1, <1>2, WrittenIs
  <2> QED BY <1>1, <2>1, <2>2, HistoryAssumption DEF Shapes, IsCall, IsDctx
<1>4b. /\ b \in {1, 2} /\ m \in Seq(Int)
       /\ dst'[b] \in Seq(Int) /\ DOMAIN dst' = {1, 2} /\ dst'[1] \in Seq(Int) /\ dst'[2] \in Seq(Int)
       /\ \A a \in 0 .. Len(m) - 1 : In(dst'[b], a) = In(m, a)
       /\ \A j \in 0 .. n - 1 : In(dst'[b], Len(m) + j) = g + j
  <2>1. b \in {1, 2} /\ m \in Seq(Int)
    BY <1>1 DEF Shapes, IsCall
  <2>2. /\ dst'[b] \in Seq(Int) /\ DOMAIN dst' = {1, 2} /\ dst'[1] \in Seq(Int) /\ dst'[2] \in Seq(Int)
        /\ \A a \in 0 .. Len(m) - 1 : In(dst'[b], a) = In(m, a)
        /\ \A j \in 0 .. n - 1 : In(dst'[b], Len(m) + j) = g + j
    BY <1>1, <1>2, WrittenIs
  <2> QED BY <2>1, <2>2
<1>5. /\ IsDict(dctx'.dict) /\ tmp' \in Seq(Int) /\ Len(tmp') = Len(tmp)
      /\ dctx'.dict.where = NULL => dctx'.dict.size = 0
      /\ dctx'.dict.where = Tmp => dctx'.dict.at = 0 /\ dctx'.dict.size <= dctx.cap
      /\ dctx'.dict.where = Tmp /\ within => dctx'.dict.size = dctx.out + dctx.start + n
      /\ within => \A x \in Nat : dctx.out <= x => In(tmp', x) = In(tmp, x)
      /\ dctx.linked => RightAt(Memory(tmp', dst', dctx'.dict.where), dctx'.dict.at + dctx'.dict.size, dctx'.dict.size, g + n, d.done)
      /\ ~ dctx.linked => dctx'.dict = NoDict
  <2>1. CASE dctx.linked
    <3>1. Handing(n, within)
      BY <1>1, <2>1 DEF Handing
    <3>2. GoodUpdate(u.dict, u.tmp, n, within, DoneAfter(n, within))
      BY <3>1, UpdateIsGood
    <3>3. DoneAfter(n, within) = d.done
      <4>1. CASE within
        BY <4>1 DEF DoneAfter, Advanced
      <4>2. CASE ~ within
        BY <1>4, <4>2 DEF DoneAfter, Advanced
      <4> QED BY <4>1, <4>2
    <3>4. tmp' = u.tmp /\ dctx'.dict = u.dict /\ dst' = Written(Given, n)
      BY <1>2, <1>3, <2>1
    <3>5. GoodUpdate(dctx'.dict, tmp', n, within, d.done)
      BY <3>2, <3>3, <3>4
    <3>6. dctx'.dict.where \in {Tmp, 1, 2}
      BY <1>4b, <3>5 DEF GoodUpdate
    <3> QED BY <2>1, <3>4, <3>5, <3>6 DEF GoodUpdate, NULL, Tmp
  <2>2. CASE ~ dctx.linked
    <3>1. dctx'.dict = NoDict /\ tmp' = tmp
      BY <1>1, <1>2, <1>3, <2>2 DEF Placed
    <3>2. IsDict(NoDict) /\ NoDict.where = NULL /\ NoDict.size = 0 /\ NoDict.where # Tmp
      BY SMT DEF NoDict, IsDict, NULL, Tmp
    <3> QED BY <1>1, <2>2, <3>1, <3>2 DEF Shapes
  <2> QED BY <2>1, <2>2
<1>6. /\ d.stage \in {"blockHeader", "copyDirect", "flushOut"} /\ d.done \in Nat /\ d.size \in Nat /\ d.start \in Nat /\ d.left \in Nat
      /\ d.xxh = Taken(d.done)
      /\ within => /\ d.done = dctx.done /\ d.size = dctx.size /\ d.start = dctx.start + n
                   /\ n <= dctx.size - dctx.start /\ dctx.stage = "flushOut"
                   /\ (d.stage # "flushOut" => n = dctx.size - dctx.start)
      /\ ~ within => d.done = dctx.done + n /\ d.stage # "flushOut" /\ dctx.stage # "flushOut"
  BY DEF Advanced, IsDctx
<1>7. Given' = g + n
  <2>1. Given' = d.done - (IF d.stage = "flushOut" THEN d.size - d.start ELSE 0)
    BY <1>3 DEF Given
  <2> HIDE DEF g
  <2>2. CASE within
    <3>1. dctx.done = g + dctx.size - dctx.start
      BY <1>4, <1>6, <2>2
    <3>2. d.done = dctx.done /\ d.size = dctx.size /\ d.start = dctx.start + n /\ (d.stage # "flushOut" => n = dctx.size - dctx.start)
      BY <1>6, <2>2
    <3> DEFINE size == dctx.size
    <3> DEFINE st == dctx.start
    <3>3. g \in Nat /\ size \in Nat /\ st \in Nat /\ dctx.done = g + (size - st) /\ d.done = dctx.done /\ d.size = size
          /\ d.start = st + n /\ (d.stage # "flushOut" => n = size - st)
      BY <1>4, <3>1, <3>2
    <3> HIDE DEF size, st
    <3> QED BY <2>1, <3>3, SMT
  <2>3. CASE ~ within
    <3>1. g = dctx.done /\ d.done = dctx.done + n /\ d.stage # "flushOut"
      BY <1>4, <1>6, <2>3
    <3> QED BY <1>4, <2>1, <3>1, SMT
  <2> QED BY <2>2, <2>3
<1>8. Reading'
  BY <1>3, <1>6 DEF Reading
<1> HIDE DEF u, g
<1>9. Shapes'
  <2>1. IsDctx(dctx')
    BY <1>1, <1>3, <1>4, <1>5, <1>6 DEF IsDctx, Shapes
  <2> QED BY <1>1, <1>2, <1>5, <1>4b, <2>1 DEF Shapes
<1>10. Allocated'
  <2>1. dctx.stage = "flushOut" =>
          dctx.start <= dctx.size /\ dctx.size <= dctx.max /\ dctx.size <= dctx.done /\ dctx.out + dctx.max <= dctx.cap
    BY <1>1 DEF Allocated
  <2>2. dctx'.stage = "flushOut" => d.start <= d.size /\ d.size <= dctx.max /\ d.size <= d.done /\ dctx.out + dctx.max <= dctx.cap
    BY <1>3, <1>4, <1>6, <2>1, SMT
  <2> QED BY <1>1, <1>3, <1>5, <2>2 DEF Allocated, Reading, Needed
<1>11. Placed'
  <2>1. dctx'.dict.where = Tmp /\ dctx'.stage = "flushOut" => dctx'.dict.size = dctx'.out + dctx'.start
    <3>1. SUFFICES ASSUME dctx'.dict.where = Tmp, dctx'.stage = "flushOut" PROVE dctx'.dict.size = dctx'.out + dctx'.start
      OBVIOUS
    <3>2. within /\ d.start = dctx.start + n /\ dctx'.dict.size = dctx.out + dctx.start + n
      BY <1>3, <1>5, <1>6, <3>1
    <3> QED BY <1>3, <1>4, <3>2, SMT
  <2>2. ~ dctx.linked => dctx'.out = 0
    BY <1>1, <1>3 DEF Placed
  <2> QED BY <1>2, <1>3, <1>5, <1>8, <2>1, <2>2 DEF Placed
<1>12. Delivered'
  <2>1. /\ call.start <= Len(m) /\ Len(m) - call.start <= call.room
        /\ \A j \in 1 .. Len(m) - call.start : In(m, Len(m) - j) = g - j
    BY <1>1 DEF Delivered, g
  <2>2. n <= call.room - (Len(m) - call.start)
    BY DEF Room
  <2> DEFINE M == dst'[b]
  <2>3. Len(M) = Len(m) + n /\ (\A a \in 0 .. Len(m) - 1 : In(M, a) = In(m, a)) /\ \A j \in 0 .. n - 1 : In(M, Len(m) + j) = g + j
    BY <1>4, <1>4b
  <2> HIDE DEF M, m
  <2>4. call.start <= Len(M) /\ Len(M) - call.start <= call.room
    BY <1>4, <2>1, <2>2, <2>3, SMT
  <2>5. \A j \in 1 .. Len(M) - call.start : In(M, Len(M) - j) = (g + n) - j
    <3>1. TAKE j \in 1 .. Len(M) - call.start
    <3>2. CASE j <= n
      <4>1. n - j \in 0 .. n - 1 /\ Len(m) + (n - j) = Len(M) - j /\ g + (n - j) = (g + n) - j
        BY <1>4, <2>3, <3>2, SMT
      <4> QED BY <2>3, <4>1
    <3>3. CASE j > n
      <4>0. Len(M) = Len(m) + n /\ call.start <= Len(m)
        BY <2>1, <2>3
      <4>1. j - n \in 1 .. Len(m) - call.start /\ Len(m) - (j - n) \in 0 .. Len(m) - 1 /\ Len(m) - (j - n) = Len(M) - j /\ g - (j - n) = (g + n) - j
        BY <1>4, <3>3, <4>0, SMTT(60)
      <4>2. In(m, Len(m) - (j - n)) = g - (j - n)
        BY <2>1, <4>1
      <4> QED BY <2>3, <4>1, <4>2
    <3> QED BY <1>4, <3>2, <3>3, SMT
  <2> QED BY <1>2, <1>7, <1>8, <2>4, <2>5 DEF Delivered, M
<1>13. Block'
  <2>1. SUFFICES ASSUME dctx'.stage = "flushOut", NEW k \in 0 .. dctx'.size - 1
                 PROVE  In(tmp', dctx'.out + k) = dctx'.done - dctx'.size + k
    BY DEF Block
  <2>2. within /\ dctx.stage = "flushOut" /\ dctx'.size = dctx.size /\ dctx'.done = dctx.done /\ dctx'.out = dctx.out
    BY <1>3, <1>6, <2>1
  <2>3. dctx.out + k \in Nat /\ dctx.out <= dctx.out + k
    <3>1. dctx.out \in Nat /\ k \in 0 .. dctx.size - 1 /\ dctx.size \in Nat
      BY <1>4, <2>1, <2>2
    <3> QED BY <3>1, SMT
  <2>4. In(tmp', dctx.out + k) = In(tmp, dctx.out + k)
    BY <1>5, <2>2, <2>3
  <2>5. In(tmp, dctx.out + k) = dctx.done - dctx.size + k
    BY <1>1, <2>2 DEF Block
  <2> QED BY <2>2, <2>4, <2>5
<1>14. Remembered'
  <2>1. SUFFICES ASSUME dctx.linked PROVE Remembered'
    BY <1>3 DEF Remembered
  <2>2. RightAt(Memory(tmp', dst', dctx'.dict.where), DictEnd', dctx'.dict.size, Given', dctx'.done)
    BY <1>3, <1>5, <1>7, <2>1 DEF DictEnd
  <2>3. ASSUME dctx'.stage = "flushOut", NEW k \in 1 .. Given', Given' - k >= dctx'.done - KB64
        PROVE  k <= dctx'.out + dctx'.start
    <3>1. within /\ d.start = dctx.start + n /\ dctx'.done = dctx.done /\ dctx.stage = "flushOut"
      BY <1>3, <1>6, <2>3
    <3>2. \A i \in 1 .. g : g - i >= dctx.done - KB64 => i <= dctx.out + dctx.start
      BY <1>1, <2>1, <3>1 DEF Remembered, Reading, g
    <3>3. k \in 1 .. (g + n) /\ (g + n) - k >= dctx.done - KB64
      BY <1>7, <2>3, <3>1
    <3>6. dctx'.out = dctx.out /\ dctx'.start = dctx.start + n
      BY <1>3, <3>1
    <3> DEFINE out == dctx.out
    <3> DEFINE st == dctx.start
    <3> DEFINE done == dctx.done
    <3>7. out \in Nat /\ st \in Nat /\ done \in Nat /\ g \in Nat /\ KB64 \in Nat /\ dctx'.out = out /\ dctx'.start = st + n
          /\ k \in 1 .. (g + n) /\ (g + n) - k >= done - KB64
          /\ \A i \in 1 .. g : g - i >= done - KB64 => i <= out + st
      BY <1>4, <3>2, <3>3, <3>6
    <3> HIDE DEF out, st, done
    <3>4. CASE k <= n
      BY <3>4, <3>7, SMT
    <3>5. CASE k > n
      <4>1. k - n \in 1 .. g /\ g - (k - n) >= done - KB64
        BY <3>5, <3>7, SMT
      <4>2. k - n <= out + st
        BY <3>7, <4>1
      <4> QED BY <3>7, <4>2, SMT
    <3> QED BY <3>4, <3>5, <3>7, SMT
  <2> QED BY <2>2, <2>3 DEF Remembered
<1>15. Hash'
  BY <1>3, <1>6 DEF Hash
<1> QED BY <1>9, <1>10, <1>11, <1>12, <1>13, <1>14, <1>15 DEF HInv

LEMMA RoomIs ==
  ASSUME HInv, call.active
  PROVE  Room \in Nat
<1>1. /\ call.start \in Nat /\ call.room \in Nat /\ Len(dst[call.buf]) \in Nat
      /\ call.start <= Len(dst[call.buf]) /\ Len(dst[call.buf]) - call.start <= call.room
  <2>1. dst[call.buf] \in Seq(Int)
    BY DEF HInv, Shapes, IsCall
  <2> QED BY <2>1, LenProperties DEF HInv, Shapes, IsCall, Delivered
<1> QED BY <1>1, SMT DEF Room

\* A record of which two fields were set.
LEMMA DecodedIs ==
  ASSUME HInv, NEW n \in Nat
  PROVE  /\ IsDctx(Decoded(n))
         /\ \A f \in DctxFields \ {"done", "xxh"} : Decoded(n)[f] = dctx[f]
         /\ Decoded(n).done = dctx.done + n /\ Decoded(n).xxh = Taken(dctx.done + n)
<1>1. IsDctx(dctx) /\ DOMAIN dctx = DctxFields /\ dctx.done \in Nat /\ dctx.xxh = Taken(dctx.done)
  BY DEF HInv, Shapes, IsDctx, Hash
<1> DEFINE x == XXH32_update(dctx.xxh, Content(dctx.done, n))
<1> DEFINE done == dctx.done + n
<1>2. x = Taken(done) /\ done \in Nat
  BY <1>1, HashTakes
<1> DEFINE r == [dctx EXCEPT !.done = done]
<1>3. DOMAIN r = DctxFields /\ r.done = done /\ \A f \in DctxFields \ {"done"} : r[f] = dctx[f]
  BY <1>1 DEF DctxFields
<1> DEFINE d == [r EXCEPT !.xxh = x]
<1>4. Decoded(n) = d
  BY DEF Decoded
<1> HIDE DEF r, x, done
<1>5. DOMAIN d = DctxFields /\ d.done = done /\ d.xxh = x /\ \A f \in DctxFields \ {"done", "xxh"} : d[f] = dctx[f]
  BY <1>3 DEF DctxFields
<1> HIDE DEF d
<1>6. IsDctx(d)
  BY <1>1, <1>2, <1>5 DEF IsDctx, DctxFields
<1>7. Decoded(n).done = done /\ Decoded(n).xxh = Taken(done)
  BY <1>2, <1>4, <1>5
<1>8. \A f \in DctxFields \ {"done", "xxh"} : Decoded(n)[f] = dctx[f]
  BY <1>4, <1>5
<1> QED BY <1>4, <1>6, <1>7, <1>8 DEF done

LEMMA DecodeDirectKeeps ==
  ASSUME HInv, NEW n \in Nat, DecodeDirect(n)
  PROVE  HInv'
<1>1. n <= Room /\ Reading /\ call.active /\ dctx.stage # "flushOut"
  <2>1. Room >= dctx.max /\ n <= dctx.max /\ dctx.max \in Nat
    BY DEF DecodeDirect, Directly, HInv, Shapes, IsDctx
  <2>2. Room \in Nat
    BY RoomIs DEF DecodeDirect
  <2> QED BY <2>1, <2>2, SMT DEF DecodeDirect, Reading
<1>2. Given = dctx.done
  BY <1>1, GivenIs DEF HInv
<1>3. Emit(Decoded(n), Given, n, FALSE)
  BY <1>2 DEF DecodeDirect
<1>4. Advanced(Decoded(n), n, FALSE)
  BY DecodedIs DEF Advanced, DecodeDirect, DctxFields
<1> QED BY <1>1, <1>3, <1>4, EmitKeeps

LEMMA CopyDirectKeeps ==
  ASSUME HInv, NEW n \in Nat, CopyDirect(n)
  PROVE  HInv'
<1> DEFINE r  == Decoded(n)
<1> DEFINE s  == [r EXCEPT !.left = @ - n]
<1> DEFINE st == IF n = dctx.left THEN "blockHeader" ELSE dctx.stage
<1> DEFINE d  == [s EXCEPT !.stage = st]
<1>1. n <= Room /\ n <= dctx.left /\ Reading /\ call.active /\ dctx.stage = "copyDirect"
  BY DEF CopyDirect, Reading
<1>2. Given = dctx.done
  BY <1>1, GivenIs DEF HInv
<1>3. /\ IsDctx(r) /\ DOMAIN r = DctxFields /\ r.done = dctx.done + n /\ r.xxh = Taken(dctx.done + n)
      /\ \A f \in DctxFields \ {"done", "xxh"} : r[f] = dctx[f]
  BY DecodedIs DEF IsDctx
<1>4. Emit(d, Given, n, FALSE)
  <2>1. r.stage = dctx.stage
    BY <1>3 DEF DctxFields
  <2>2. [r EXCEPT !.left = @ - n, !.stage = IF n = dctx.left THEN "blockHeader" ELSE @] = d
    BY <2>1
  <2> QED BY <1>2, <2>2 DEF CopyDirect
<1> HIDE DEF r
<1>5. DOMAIN s = DctxFields /\ s.left = r.left - n /\ \A f \in DctxFields \ {"left"} : s[f] = r[f]
  BY <1>3 DEF DctxFields
<1> HIDE DEF s, st
<1>6. DOMAIN d = DctxFields /\ d.stage = st /\ \A f \in DctxFields \ {"stage"} : d[f] = s[f]
  BY <1>5 DEF DctxFields
<1>7. st \in {"blockHeader", "copyDirect"} /\ r.left - n \in Nat
  <2>1. r.left = dctx.left /\ dctx.left \in Nat
    BY <1>3 DEF DctxFields, HInv, Shapes, IsDctx
  <2> QED BY <1>1, <2>1, SMT DEF st
<1> HIDE DEF d
<1>8. IsDctx(d)
  BY <1>3, <1>5, <1>6, <1>7 DEF IsDctx, DctxFields
<1>9. Advanced(d, n, FALSE)
  BY <1>3, <1>5, <1>6, <1>7, <1>8 DEF Advanced, DctxFields
<1> QED BY <1>1, <1>4, <1>9, EmitKeeps

LEMMA FlushOutKeeps ==
  ASSUME HInv, FlushOut
  PROVE  HInv'
<1> DEFINE left == dctx.size - dctx.start
<1> DEFINE n  == Least(left, Room)
<1> DEFINE r  == [dctx EXCEPT !.start = @ + n]
<1> DEFINE st == IF n = left THEN "blockHeader" ELSE "flushOut"
<1> DEFINE d  == [r EXCEPT !.stage = st]
<1>1. Reading /\ call.active /\ dctx.stage = "flushOut"
  BY DEF FlushOut, Reading
<1>2. left \in Nat /\ dctx.start \in Nat
  BY <1>1, SMT DEF HInv, Shapes, IsDctx, Allocated
<1>3. n \in Nat /\ n <= Room /\ n <= left
  <2>1. Room \in Nat
    BY <1>1, RoomIs
  <2>2. left \in Int /\ Room \in Int
    BY <1>2, <2>1
  <2> HIDE DEF left
  <2>3. n <= left /\ n <= Room /\ (n = left \/ n = Room)
    BY <2>2, LeastIs
  <2> QED BY <1>2, <2>1, <2>3
<1>4. Emit(d, Given, n, TRUE)
  <2>1. [dctx EXCEPT !.start = @ + n, !.stage = IF n = dctx.size - dctx.start THEN "blockHeader" ELSE @] = d
    BY <1>1
  <2> QED BY <2>1 DEF FlushOut
<1> HIDE DEF n, left
<1>5. IsDctx(dctx) /\ DOMAIN dctx = DctxFields /\ dctx.xxh = Taken(dctx.done)
  BY DEF HInv, Shapes, IsDctx, Hash
<1>6. DOMAIN r = DctxFields /\ r.start = dctx.start + n /\ \A f \in DctxFields \ {"start"} : r[f] = dctx[f]
  BY <1>5 DEF DctxFields
<1> HIDE DEF r, st
<1>7. DOMAIN d = DctxFields /\ d.stage = st /\ \A f \in DctxFields \ {"stage"} : d[f] = r[f]
  BY <1>6 DEF DctxFields
<1>8. st \in {"blockHeader", "flushOut"} /\ dctx.start + n \in Nat
  BY <1>2, <1>3 DEF st
<1> HIDE DEF d
<1>9. IsDctx(d)
  BY <1>5, <1>6, <1>7, <1>8 DEF IsDctx, DctxFields
<1>10. Advanced(d, n, TRUE)
  BY <1>5, <1>6, <1>7, <1>8, <1>9 DEF Advanced, DctxFields, st, left
<1> QED BY <1>1, <1>3, <1>4, <1>10, EmitKeeps DEF left

LEMMA CallKeeps ==
  ASSUME HInv, NEW room \in Rooms, NEW continues \in BOOLEAN, Call(room, continues)
  PROVE  HInv'
<1> DEFINE where == dctx.dict.where
<1> DEFINE other == IF where = 1 THEN 2 ELSE 1
<1> DEFINE buf == IF continues THEN call.buf ELSE other
<1> DEFINE start == IF continues THEN Len(dst[buf]) ELSE 0
<1>1. /\ ~ call.active /\ dctx' = dctx /\ tmp' = tmp /\ frames' = frames
      /\ call' = [active |-> TRUE, buf |-> buf, room |-> room, stable |-> call.stable, start |-> start]
      /\ dst' = IF continues THEN dst ELSE [b \in {1, 2} |-> IF call.stable /\ b # buf /\ b = where THEN dst[b] ELSE << >>]
  BY DEF Call
<1>2. Shapes /\ Allocated /\ Placed /\ Block /\ Remembered /\ Hash
  BY DEF HInv
<1>3. buf \in {1, 2} /\ << >> \in Seq(Int) /\ Len(<< >>) = 0 /\ where \in {Tmp, 1, 2, NULL} /\ room \in Nat
  BY <1>2, EmptySeq, HistoryAssumption DEF Shapes, IsCall, IsDctx, IsDict
<1>4. DOMAIN dst' = {1, 2} /\ dst'[1] \in Seq(Int) /\ dst'[2] \in Seq(Int) /\ Len(dst'[buf]) = start /\ start \in Nat
  <2>1. CASE continues
    <3>1. Len(dst[buf]) \in Nat
      BY <1>2, <1>3, LenProperties DEF Shapes
    <3> QED BY <1>1, <1>2, <2>1, <3>1 DEF Shapes
  <2>2. CASE ~ continues
    BY <1>1, <1>2, <1>3, <2>2 DEF Shapes
  <2> QED BY <2>1, <2>2
<1>5. where \in {1, 2} => dst'[where] = dst[where]
  <2>1. SUFFICES ASSUME where \in {1, 2}, ~ continues PROVE dst'[where] = dst[where]
    BY <1>1
  <2>2. call.stable
    BY <1>1, <1>2, <2>1, SMT DEF Placed, Tmp, NULL
  <2>3. where # buf
    BY <2>1
  <2> HIDE DEF buf
  <2> QED BY <1>1, <2>1, <2>2, <2>3
<1> HIDE DEF buf, start
<1>6. /\ call'.active /\ call'.buf = buf /\ call'.room = room /\ call'.start = start /\ call'.stable = call.stable
      /\ IsCall(call')
  BY <1>1, <1>2, <1>3, <1>4 DEF Shapes, IsCall
<1>7. Shapes' /\ Allocated' /\ Placed' /\ Block' /\ Hash'
  BY <1>1, <1>2, <1>4, <1>6 DEF Shapes, Allocated, Reading, Placed, Block, Hash
<1>8. Delivered'
  <2> DEFINE m == dst'[buf]
  <2>1. Len(m) = start
    BY <1>4
  <2> HIDE DEF m
  <2>2. start <= Len(m) /\ Len(m) - start <= room /\ \A j : j \notin 1 .. Len(m) - start
    BY <1>3, <1>4, <2>1, SMT
  <2> QED BY <1>6, <2>1, <2>2 DEF Delivered, m
<1>9. Remembered'
  <2>1. Memory(tmp', dst', where) = Memory(tmp, dst, where)
    BY <1>1, <1>3, <1>5 DEF Memory, Tmp, NULL
  <2>2. Given' = Given /\ DictEnd' = DictEnd /\ dctx' = dctx
    BY <1>1 DEF Given, DictEnd
  <2> QED BY <1>2, <2>1, <2>2 DEF Remembered, Reading
<1> QED BY <1>7, <1>8, <1>9 DEF HInv

\* The buffer when it is new.
LEMMA JunkIs ==
  ASSUME NEW n \in Nat
  PROVE  [i \in 1 .. n |-> Junk] \in Seq(Int) /\ Len([i \in 1 .. n |-> Junk]) = n
<1> DEFINE t == [i \in 1 .. n |-> Junk]
<1>1. t \in [1 .. n -> Int] /\ DOMAIN t = 1 .. n
  BY SMT DEF Junk
<1> HIDE DEF t
<1>2. t \in Seq(Int)
  BY <1>1, SeqDef
<1>3. Len(t) \in Nat /\ DOMAIN t = 1 .. Len(t)
  BY <1>2, LenProperties
<1>4. Len(t) = n
  BY <1>1, <1>3, SMT
<1> QED BY <1>2, <1>4 DEF t

LEMMA NoDictIs == IsDict(NoDict) /\ NoDict.where = NULL /\ NoDict.size = 0 /\ NoDict.where # Tmp
BY SMT DEF NoDict, IsDict, NULL, Tmp

LEMMA BeginFrameKeeps ==
  ASSUME HInv, NEW linked \in BOOLEAN, NEW max \in BlockSizes, BeginFrame(linked, max)
  PROVE  HInv'
<1> DEFINE need  == Needed(linked, max)
<1> DEFINE grows == need > dctx.cap
<1> DEFINE cap   == IF grows THEN need ELSE dctx.cap
<1>1. Shapes /\ Allocated /\ Placed /\ Delivered
  BY DEF HInv
<1>2. /\ call.active /\ dctx.stage = "init" /\ frames' = frames + 1 /\ dst' = dst /\ call' = call
      /\ dctx' = [NewDctx EXCEPT !.stage = "blockHeader", !.linked = linked, !.max = max, !.cap = cap, !.dict = dctx.dict]
      /\ tmp' = IF grows THEN [i \in 1 .. cap |-> Junk] ELSE tmp
  BY DEF BeginFrame
<1>3. max \in Nat /\ max >= KB64 /\ KB64 \in Nat /\ KB64 > 0 /\ dctx.cap \in Nat /\ need \in Nat /\ need >= max
      /\ cap \in Nat /\ need <= cap /\ (~ grows => cap = dctx.cap /\ cap > 0)
  <2>1. max \in Nat /\ max >= KB64 /\ KB64 \in Nat /\ KB64 > 0 /\ dctx.cap \in Nat
    BY <1>1, HistoryAssumption DEF Shapes, IsDctx
  <2>2. need \in Nat /\ need >= max
    BY <2>1, SMT DEF Needed
  <2> HIDE DEF need
  <2> QED BY <2>1, <2>2, SMT
<1> HIDE DEF need
<1>4. tmp' \in Seq(Int) /\ Len(tmp') = cap
  <2>1. CASE grows
    BY <1>2, <1>3, <2>1, JunkIs
  <2>2. CASE ~ grows
    BY <1>1, <1>2, <1>3, <2>2 DEF Shapes, Allocated
  <2> QED BY <2>1, <2>2
<1>5. dctx.dict = NoDict
  BY <1>1, <1>2 DEF Placed, Reading
<1> HIDE DEF cap, grows
<1>6. /\ dctx'.stage = "blockHeader" /\ dctx'.linked = linked /\ dctx'.max = max /\ dctx'.cap = cap /\ dctx'.dict = NoDict
      /\ dctx'.left = 0 /\ dctx'.out = 0 /\ dctx'.start = 0 /\ dctx'.size = 0 /\ dctx'.done = 0 /\ dctx'.xxh = XXH32_reset
      /\ DOMAIN dctx' = DctxFields
  <2>1. dctx' = [stage |-> "blockHeader", linked |-> linked, max |-> max, cap |-> cap, dict |-> NoDict,
                 left |-> 0, out |-> 0, start |-> 0, size |-> 0, done |-> 0, xxh |-> XXH32_reset]
    BY <1>2, <1>5 DEF NewDctx
  <2> QED BY <2>1 DEF DctxFields
<1>7. Shapes'
  <2>1. IsDctx(dctx')
    BY <1>3, <1>6, NoDictIs, SMT DEF IsDctx
  <2> QED BY <1>1, <1>2, <1>4, <2>1 DEF Shapes
<1>8. Allocated' /\ Placed'
  BY <1>2, <1>3, <1>4, <1>6, NoDictIs DEF Allocated, Placed, Reading, need
<1>9. Given' = 0
  BY <1>6 DEF Given
<1>10. Delivered'
  <2> DEFINE m == dst[call.buf]
  <2>1. call.start <= Len(m) /\ Len(m) - call.start <= call.room /\ Len(m) = call.start /\ call.start \in Nat
    BY <1>1, <1>2 DEF Delivered, Reading, Shapes, IsCall
  <2> HIDE DEF m
  <2>2. \A j : j \notin 1 .. Len(m) - call.start
    BY <2>1, SMT
  <2> QED BY <1>2, <1>6, <2>1, <2>2 DEF Delivered, Reading, m
<1>11. Block' /\ Remembered' /\ Hash'
  <2>1. \A k : k \notin 1 .. 0
    BY SMT
  <2> QED BY <1>6, <1>9, <2>1, HashStarts DEF Block, Remembered, Hash, RightAt
<1> QED BY <1>7, <1>8, <1>10, <1>11 DEF HInv

LEMMA BeginFailsKeeps ==
  ASSUME HInv, NEW linked \in BOOLEAN, NEW max \in BlockSizes, BeginFails(linked, max)
  PROVE  HInv'
<1>1. Shapes /\ Allocated /\ Placed /\ Hash
  BY DEF HInv
<1>2. /\ dctx.stage = "init" /\ frames' = frames /\ dst' = dst /\ tmp' \in {tmp, << >>}
      /\ dctx' = [dctx EXCEPT !.cap = 0, !.linked = linked, !.max = max] /\ call' = [call EXCEPT !.active = FALSE]
  BY DEF BeginFails
<1>3. max \in Nat /\ << >> \in Seq(Int)
  BY HistoryAssumption, EmptySeq
<1> DEFINE r == [dctx EXCEPT !.cap = 0]
<1> DEFINE s == [r EXCEPT !.linked = linked]
<1>4. dctx' = [s EXCEPT !.max = max]
  BY <1>2
<1>5. IsDctx(dctx) /\ DOMAIN dctx = DctxFields
  BY <1>1 DEF Shapes, IsDctx
<1>6. DOMAIN r = DctxFields /\ r.cap = 0 /\ \A f \in DctxFields \ {"cap"} : r[f] = dctx[f]
  BY <1>5 DEF DctxFields
<1> HIDE DEF r
<1>7. DOMAIN s = DctxFields /\ s.linked = linked /\ \A f \in DctxFields \ {"linked"} : s[f] = r[f]
  BY <1>6 DEF DctxFields
<1> HIDE DEF s
<1>8. DOMAIN dctx' = DctxFields /\ dctx'.max = max /\ \A f \in DctxFields \ {"max"} : dctx'[f] = s[f]
  BY <1>4, <1>7 DEF DctxFields
<1>9. /\ DOMAIN dctx' = DctxFields /\ dctx'.max = max /\ dctx'.linked = linked /\ dctx'.cap = 0
      /\ dctx'.stage = "init" /\ dctx'.dict = dctx.dict /\ dctx'.left = dctx.left /\ dctx'.out = dctx.out
      /\ dctx'.start = dctx.start /\ dctx'.size = dctx.size /\ dctx'.done = dctx.done /\ dctx'.xxh = dctx.xxh
  BY <1>2, <1>6, <1>7, <1>8 DEF DctxFields
<1>10. IsCall(call') /\ ~ call'.active
  BY <1>1, <1>2 DEF Shapes, IsCall
<1>11. Shapes'
  <2>1. IsDctx(dctx')
    BY <1>3, <1>5, <1>9, SMT DEF IsDctx
  <2>2. tmp' \in Seq(Int)
    BY <1>1, <1>2, <1>3 DEF Shapes
  <2> QED BY <1>1, <1>2, <1>10, <2>1, <2>2 DEF Shapes
<1>12. Placed'
  <2>1. dctx.dict = NoDict /\ dctx.out = 0
    BY <1>1, <1>2 DEF Placed, Reading
  <2> QED BY <1>9, <2>1, NoDictIs DEF Placed
<1>13. Allocated' /\ Delivered' /\ Block' /\ Remembered' /\ Hash'
  BY <1>1, <1>9, <1>10, SMT DEF Allocated, Delivered, Block, Remembered, Hash, Reading
<1> QED BY <1>11, <1>12, <1>13 DEF HInv

LEMMA ResetKeeps ==
  ASSUME HInv, Reset, IsCall(call'), ~ call'.active, dst' = dst, frames' = frames
  PROVE  HInv'
<1>1. Shapes /\ Allocated
  BY DEF HInv
<1>2. /\ dctx'.stage = "init" /\ dctx'.linked = FALSE /\ dctx'.max = 0 /\ dctx'.cap = dctx.cap /\ dctx'.dict = NoDict
      /\ dctx'.left = 0 /\ dctx'.out = 0 /\ dctx'.start = 0 /\ dctx'.size = 0 /\ dctx'.done = 0 /\ dctx'.xxh = XXH32_reset
      /\ DOMAIN dctx' = DctxFields
  <2>1. dctx' = [stage |-> "init", linked |-> FALSE, max |-> 0, cap |-> dctx.cap, dict |-> NoDict,
                 left |-> 0, out |-> 0, start |-> 0, size |-> 0, done |-> 0, xxh |-> XXH32_reset]
    BY DEF NewDctx, Reset
  <2> QED BY <2>1 DEF DctxFields
<1>3. tmp' \in Seq(Int) /\ Len(tmp') = Len(tmp)
  <2>1. Len(tmp) \in Nat /\ DOMAIN tmp = 1 .. Len(tmp)
    BY <1>1, LenProperties DEF Shapes
  <2>2. tmp' = [i \in 1 .. Len(tmp) |-> Junk]
    BY <2>1 DEF Reset
  <2> QED BY <2>1, <2>2, JunkIs
<1>4. Shapes'
  <2>1. IsDctx(dctx')
    <3>1. dctx.cap \in Nat
      BY <1>1 DEF Shapes, IsDctx
    <3>2. dctx'.linked \in BOOLEAN
      BY <1>2, Zenon
    <3>3. 0 \in Nat /\ dctx'.stage \in {"init", "blockHeader", "copyDirect", "flushOut"} /\ IsDict(dctx'.dict)
      BY <1>2, NoDictIs
    <3> QED BY <1>2, <3>1, <3>2, <3>3, Zenon DEF IsDctx
  <2> QED BY <1>1, <1>3, <2>1 DEF Shapes
<1>5. Placed'
  BY <1>2, NoDictIs DEF Placed
<1>6. Allocated' /\ Delivered' /\ Block' /\ Remembered' /\ Hash'
  BY <1>1, <1>2, <1>3, HashStarts DEF Allocated, Delivered, Block, Remembered, Hash, Reading
<1> QED BY <1>4, <1>5, <1>6 DEF HInv

\* What is decoded into tmpOut, and what lies before it.
Laid(s, out, n, max, done) ==
  [i \in DOMAIN tmp |->
     CASE i - 1 \in out .. out + n - 1 -> done + (i - 1 - out)
       [] i - 1 \in out + n .. out + max - 1 -> Junk
       [] OTHER -> s[i]]

LaidOut(t, s, len, out, n, done) ==
  /\ t \in Seq(Int) /\ Len(t) = len
  /\ \A k \in 0 .. n - 1 : In(t, out + k) = done + k
  /\ \A x \in Int : x < out => In(t, x) = In(s, x)

LEMMA BlockIs ==
  ASSUME NEW s, s \in Seq(Int), NEW len \in Nat, Len(s) = len, DOMAIN tmp = DOMAIN s,
         NEW out \in Nat, NEW max \in Nat, NEW n \in 0 .. max, NEW done \in Int, out + max <= len
  PROVE  LaidOut(Laid(s, out, n, max, done), s, len, out, n, done)
<1> DEFINE t == Laid(s, out, n, max, done)
<1>1. DOMAIN s = 1 .. len /\ s \in [1 .. len -> Int] /\ DOMAIN tmp = 1 .. len
  BY LenProperties
<1>2. \A i \in 1 .. len : i - 1 \in out .. out + n - 1 => t[i] = done + (i - 1 - out)
  BY <1>1 DEF Laid
<1>3. \A i \in 1 .. len : i - 1 \in out + n .. out + max - 1 => t[i] = Junk
  <2>1. \A i \in 1 .. len : i - 1 \in out + n .. out + max - 1 => i - 1 \notin out .. out + n - 1
    BY SMT
  <2> QED BY <1>1, <2>1 DEF Laid
<1>4. \A i \in 1 .. len : i - 1 \notin out .. out + n - 1 /\ i - 1 \notin out + n .. out + max - 1 => t[i] = s[i]
  BY <1>1 DEF Laid
<1>5. DOMAIN t = 1 .. len /\ t = [i \in 1 .. len |-> t[i]]
  BY <1>1 DEF Laid
<1> HIDE DEF t
<1>6. \A i \in 1 .. len : t[i] \in Int
  <2>1. TAKE i \in 1 .. len
  <2>2. CASE i - 1 \in out .. out + n - 1
    <3>1. t[i] = done + (i - 1 - out)
      BY <1>2, <2>2
    <3> QED BY <3>1, SMT
  <2>3. CASE i - 1 \in out + n .. out + max - 1
    BY <1>3, <2>3, SMT DEF Junk
  <2>4. CASE i - 1 \notin out .. out + n - 1 /\ i - 1 \notin out + n .. out + max - 1
    BY <1>1, <1>4, <2>4
  <2> QED BY <2>2, <2>3, <2>4
<1>7. /\ t \in Seq(Int) /\ Len(t) = Len(s)
      /\ \A a : a + 1 \notin DOMAIN s => In(t, a) = In(s, a)
  <2>1. DOMAIN t = DOMAIN s /\ t = [i \in DOMAIN s |-> t[i]] /\ \A i \in DOMAIN s : t[i] \in Int
    BY <1>1, <1>5, <1>6
  <2> QED BY <2>1, Rewritten
<1>8. \A k \in 0 .. n - 1 : In(t, out + k) = done + k
  <2>1. TAKE k \in 0 .. n - 1
  <2> DEFINE i == out + k + 1
  <2>0. n \in Nat /\ n <= max /\ k \in Nat /\ k < n
    BY SMT
  <2>2. i \in 1 .. len /\ i - 1 \in out .. out + n - 1 /\ done + (i - 1 - out) = done + k /\ (out + k) + 1 = i
    BY <2>0, SMT
  <2> HIDE DEF i
  <2>3. t[i] = done + k
    BY <1>2, <2>2
  <2> QED BY <1>5, <2>2, <2>3 DEF In
<1>9. \A x \in Int : x < out => In(t, x) = In(s, x)
  <2>1. SUFFICES ASSUME NEW x \in Int, x < out, x + 1 \in 1 .. len PROVE In(t, x) = In(s, x)
    BY <1>1, <1>7
  <2>2. x + 1 - 1 \notin out .. out + n - 1 /\ x + 1 - 1 \notin out + n .. out + max - 1
    BY <2>1, SMT
  <2>3. t[x + 1] = s[x + 1]
    BY <1>4, <2>1, <2>2
  <2> QED BY <1>1, <1>5, <2>1, <2>3 DEF In
<1> QED BY <1>7, <1>8, <1>9 DEF LaidOut, t

LEMMA RawBlockKeeps ==
  ASSUME HInv, NEW n \in Nat, RawBlock(n)
  PROVE  HInv'
<1>1. Shapes /\ Allocated /\ Placed /\ Delivered /\ Remembered /\ Hash
  BY DEF HInv
<1>2. /\ call.active /\ dctx.stage = "blockHeader" /\ tmp' = tmp /\ dst' = dst /\ call' = call /\ frames' = frames
      /\ dctx' = [dctx EXCEPT !.stage = "copyDirect", !.left = n]
  BY DEF RawBlock
<1>3. IsDctx(dctx) /\ DOMAIN dctx = DctxFields
  BY <1>1 DEF Shapes, IsDctx
<1> DEFINE r == [dctx EXCEPT !.stage = "copyDirect"]
<1>4. dctx' = [r EXCEPT !.left = n]
  BY <1>2
<1>5. DOMAIN r = DctxFields /\ r.stage = "copyDirect" /\ \A f \in DctxFields \ {"stage"} : r[f] = dctx[f]
  BY <1>3 DEF DctxFields
<1> HIDE DEF r
<1>6. DOMAIN dctx' = DctxFields /\ dctx'.left = n /\ \A f \in DctxFields \ {"left"} : dctx'[f] = r[f]
  BY <1>4, <1>5 DEF DctxFields
<1>7. /\ DOMAIN dctx' = DctxFields /\ dctx'.stage = "copyDirect" /\ dctx'.left = n
      /\ dctx'.max = dctx.max /\ dctx'.linked = dctx.linked /\ dctx'.cap = dctx.cap
      /\ dctx'.dict = dctx.dict /\ dctx'.out = dctx.out
      /\ dctx'.start = dctx.start /\ dctx'.size = dctx.size /\ dctx'.done = dctx.done /\ dctx'.xxh = dctx.xxh
  BY <1>5, <1>6 DEF DctxFields
<1>8. IsDctx(dctx')
  BY <1>3, <1>7 DEF IsDctx
<1>9. Given' = Given /\ DictEnd' = DictEnd /\ Reading /\ Reading'
  BY <1>2, <1>7 DEF Given, DictEnd, Reading
<1> QED BY <1>1, <1>2, <1>7, <1>8, <1>9 DEF HInv, Shapes, Allocated, Placed, Delivered, Block, Remembered, Hash

\* The history is moved out of a buffer that the caller may reuse.
LEMMA ReturnKeeps ==
  ASSUME HInv, Return
  PROVE  HInv'
<1>1. Shapes /\ Allocated /\ Placed /\ Delivered /\ Block /\ Remembered /\ Hash
  BY DEF HInv
<1>2. call.active /\ call' = [call EXCEPT !.active = FALSE] /\ dst' = dst /\ frames' = frames
  BY DEF Return
<1>3. IsCall(call') /\ ~ call'.active /\ call'.stable = call.stable
  BY <1>1, <1>2 DEF Shapes, IsCall
<1>4. Delivered'
  BY <1>3 DEF Delivered
<1>5. IsDctx(dctx) /\ DOMAIN dctx = DctxFields
  BY <1>1 DEF Shapes, IsDctx
<1>6. CASE ~ Preserved
  <2>1. dctx' = dctx /\ tmp' = tmp
    BY <1>6 DEF Return
  <2>2. ~ call.stable => dctx.dict.where \in {Tmp, NULL}
    <3>1. SUFFICES ASSUME ~ call.stable, ~ (dctx.dict.where \in {Tmp, NULL}) PROVE FALSE
      OBVIOUS
    <3>2. ~ (Reading /\ dctx.linked)
      BY <1>6, <3>1 DEF Preserved, Reading
    <3>3. dctx.dict = NoDict
      BY <1>1, <3>2 DEF Placed
    <3> QED BY <3>1, <3>3, NoDictIs
  <2>3. Shapes' /\ Allocated' /\ Placed' /\ Block' /\ Hash'
    BY <1>1, <1>2, <1>3, <2>1, <2>2 DEF Shapes, Allocated, Placed, Block, Hash, Reading
  <2>4. Given' = Given /\ DictEnd' = DictEnd
    BY <2>1 DEF Given, DictEnd
  <2>5. Remembered'
    BY <1>1, <1>2, <2>1, <2>4 DEF Remembered, Reading
  <2> QED BY <1>4, <2>3, <2>5 DEF HInv
<1>7. CASE Preserved /\ dctx.stage = "flushOut"
  <2> DEFINE E == dctx.out + dctx.start
  <2> DEFINE v == Dict(Tmp, 0, E)
  <2>1. /\ tmp' = FrontOfTmpOut(dctx.dict, DictEnd - dctx.start)
        /\ dctx' = [dctx EXCEPT !.dict = v]
    BY <1>7 DEF Return
  <2>2. dctx.out \in Nat /\ dctx.start \in Nat /\ dctx.size \in Nat /\ dctx.start <= dctx.size
    BY <1>1, <1>5, <1>7 DEF IsDctx, Allocated
  <2>3. Handing(0, TRUE) /\ dctx.dict.where # Tmp /\ 0 \in Nat
    <3>1. 0 <= dctx.size - dctx.start /\ 0 \in Nat
      BY <2>2, SMT
    <3> QED BY <1>1, <1>2, <1>7, <3>1 DEF Handing, Preserved, Reading
  <2>4. /\ tmp' \in Seq(Int) /\ Len(tmp') = Len(tmp)
        /\ \A x \in Nat : dctx.out <= x => In(tmp', x) = In(tmp, x)
        /\ RightAt(tmp', E, E, Given, dctx.done)
        /\ E \in Nat /\ E <= dctx.cap
    <3> DEFINE z == 0
    <3>1. z \in Nat /\ Handing(z, TRUE)
      BY <2>3
    <3> HIDE DEF z
    <3>2. /\ tmp' \in Seq(Int) /\ Len(tmp') = Len(tmp)
          /\ \A x \in Nat : dctx.out <= x => In(tmp', x) = In(tmp, x)
          /\ RightAt(tmp', dctx.out + dctx.start + z, dctx.out + dctx.start + z, Given + z, dctx.done)
          /\ dctx.out + dctx.start + z \in Nat /\ dctx.out + dctx.start + z <= dctx.cap
      BY <2>1, <2>3, <3>1, FrontIs
    <3>3. dctx.out + dctx.start + z = E /\ Given + z = Given
      <4>1. Given \in Nat
        BY <1>1, GivenIs
      <4> QED BY <2>2, <4>1, SMT DEF z
    <3> QED BY <3>2, <3>3
  <2>5. v.where = Tmp /\ v.at = 0 /\ v.size = E /\ IsDict(v) /\ v.at + v.size = E
    BY <2>4, SMT DEF Dict, IsDict, Tmp
  <2> HIDE DEF v, E
  <2>6. DOMAIN dctx' = DctxFields /\ dctx'.dict = v /\ \A f \in DctxFields \ {"dict"} : dctx'[f] = dctx[f]
    BY <1>5, <2>1 DEF DctxFields
  <2>7. /\ DOMAIN dctx' = DctxFields /\ dctx'.stage = "flushOut" /\ dctx'.left = dctx.left
        /\ dctx'.max = dctx.max /\ dctx'.linked = dctx.linked /\ dctx'.cap = dctx.cap
        /\ dctx'.dict = v /\ dctx'.out = dctx.out
        /\ dctx'.start = dctx.start /\ dctx'.size = dctx.size /\ dctx'.done = dctx.done /\ dctx'.xxh = dctx.xxh
    BY <1>7, <2>6 DEF DctxFields
  <2>8. Given' = Given /\ DictEnd' = E /\ Reading' /\ dctx.linked /\ Reading
    BY <1>7, <2>5, <2>7 DEF Given, DictEnd, Reading, Preserved
  <2>9. Shapes'
    <3>1. IsDctx(dctx')
      BY <1>5, <2>5, <2>7 DEF IsDctx
    <3> QED BY <1>1, <1>2, <1>3, <2>4, <3>1 DEF Shapes
  <2>10. Allocated' /\ Hash'
    BY <1>1, <1>7, <2>4, <2>7, <2>8 DEF Allocated, Hash
  <2>11. Placed'
    <3>1. Tmp # NULL
      BY SMT DEF Tmp, NULL
    <3> QED BY <2>4, <2>5, <2>7, <2>8, <3>1 DEF Placed, E
  <2>12. Block'
    <3>1. SUFFICES ASSUME NEW k \in 0 .. dctx.size - 1
                   PROVE  In(tmp', dctx.out + k) = dctx.done - dctx.size + k
      BY <2>7 DEF Block
    <3>2. dctx.out + k \in Nat /\ dctx.out <= dctx.out + k
      BY <2>2, SMT
    <3>3. In(tmp', dctx.out + k) = In(tmp, dctx.out + k)
      BY <2>4, <3>2
    <3> QED BY <1>1, <1>7, <3>1, <3>3 DEF Block
  <2>13. Remembered'
    <3>1. Memory(tmp', dst', v.where) = tmp'
      BY <2>5 DEF Memory
    <3> QED BY <1>1, <1>7, <2>4, <2>5, <2>7, <2>8, <3>1 DEF Remembered
  <2> QED BY <1>4, <2>9, <2>10, <2>11, <2>12, <2>13 DEF HInv
<1>8. CASE Preserved /\ dctx.stage # "flushOut"
  <2> DEFINE kept  == KeptSize
  <2> DEFINE v     == Dict(Tmp, 0, kept)
  <2> DEFINE size  == dctx.dict.size
  <2> DEFINE end   == DictEnd
  <2> DEFINE where == dctx.dict.where
  <2> DEFINE m     == Memory(tmp, dst, where)
  <2> DEFINE g     == Given
  <2>1. /\ tmp' = Copied(0, where, end - kept, kept)
        /\ dctx' = [dctx EXCEPT !.dict = v, !.out = kept]
    BY <1>8 DEF Return
  <2>2. dctx.linked /\ Reading /\ where # Tmp
    BY <1>8 DEF Preserved, Reading
  <2>3. /\ size \in Nat /\ KB64 \in Nat /\ end \in Nat /\ dctx.cap \in Nat /\ dctx.max \in Nat
        /\ KB64 <= dctx.cap /\ KB64 > 0 /\ Len(tmp) = dctx.cap
    <3>1. /\ size \in Nat /\ KB64 \in Nat /\ end \in Nat /\ dctx.cap \in Nat /\ dctx.max \in Nat /\ KB64 > 0
      BY <1>5, HistoryAssumption, SMT DEF IsDctx, IsDict, DictEnd
    <3> HIDE DEF size, end
    <3>2. KB64 <= dctx.cap /\ dctx.cap > 0
      BY <1>1, <2>2, <3>1, SMT DEF Allocated, Needed
    <3> QED BY <1>1, <3>1, <3>2 DEF Allocated
  <2>4. kept \in Nat /\ kept <= size /\ kept <= KB64 /\ (kept = size \/ kept = KB64)
    <3>1. size \in Int /\ KB64 \in Int
      BY <2>3
    <3>2. kept = Least(size, KB64)
      BY DEF KeptSize
    <3> HIDE DEF kept, size
    <3>3. kept <= size /\ kept <= KB64 /\ (kept = size \/ kept = KB64)
      BY <3>1, <3>2, LeastIs
    <3> QED BY <2>3, <3>3
  <2>5. g \in Nat /\ dctx.done \in Nat /\ g = dctx.done /\ RightAt(m, end, size, g, dctx.done)
    BY <1>1, <1>5, <1>8, <2>2, GivenIs DEF Remembered, IsDctx
  <2>6. m \in Seq(Int) /\ tmp \in Seq(Int)
    BY <1>1, <1>5, MemoryIs DEF IsDctx, IsDict, Shapes
  <2> HIDE DEF kept, size, end, g, m, where
  <2>7. /\ tmp' \in Seq(Int) /\ Len(tmp') = Len(tmp)
        /\ \A j \in 0 .. kept - 1 : In(tmp', 0 + j) = In(m, (end - kept) + j)
    <3> DEFINE z == 0
    <3> DEFINE a == end - kept
    <3>1. z \in Nat /\ a \in Int /\ kept \in Nat /\ z + kept <= Len(tmp)
          /\ (where # Tmp \/ a + kept <= z \/ z + kept <= a)
      BY <2>2, <2>3, <2>4, SMT
    <3>2. tmp \in Seq(Int) /\ Memory(tmp, dst, where) \in Seq(Int) /\ tmp' = Copied(z, where, a, kept)
      BY <2>1, <2>6 DEF m
    <3> HIDE DEF z, a
    <3>3. CopyOf(tmp', m, z, a, kept)
      BY <3>1, <3>2, CopiedIs DEF m
    <3> QED BY <3>3 DEF CopyOf, z, a
  <2>8. RightAt(tmp', kept, kept, g, dctx.done)
    <3> DEFINE z == 0
    <3> DEFINE done == dctx.done
    <3>1. \A k \in 1 .. g : g - k >= done - KB64 => k <= kept
      <4>1. SUFFICES ASSUME NEW k \in 1 .. g, g - k >= done - KB64 PROVE k <= kept
        OBVIOUS
      <4>2. k <= size
        BY <2>5, <4>1 DEF RightAt
      <4>3. k <= KB64
        BY <2>3, <2>5, <4>1, SMT
      <4> QED BY <2>4, <4>2, <4>3
    <3>2. z \in Int /\ end \in Int /\ size \in Int /\ kept \in Nat /\ kept \in Int /\ kept <= kept /\ g \in Nat /\ done \in Nat /\ z + kept = kept
      BY <2>3, <2>4, <2>5, SMT
    <3>3. \A j \in 0 .. kept - 1 : In(tmp', z + j) = In(m, end - kept + j)
      BY <2>7
    <3>4. RightAt(m, end, size, g, done)
      BY <2>5
    <3> HIDE DEF z, done
    <3>5. RightAt(tmp', z + kept, kept, g, done)
      BY <3>1, <3>2, <3>3, <3>4, Moved
    <3> QED BY <3>2, <3>5 DEF done
  <2>9. v.where = Tmp /\ v.at = 0 /\ v.size = kept /\ IsDict(v) /\ v.at + v.size = kept
    BY <2>4, SMT DEF Dict, IsDict, Tmp
  <2> DEFINE r == [dctx EXCEPT !.dict = v]
  <2>10. dctx' = [r EXCEPT !.out = kept]
    BY <2>1
  <2> HIDE DEF v
  <2>11. DOMAIN r = DctxFields /\ r.dict = v /\ \A f \in DctxFields \ {"dict"} : r[f] = dctx[f]
    BY <1>5 DEF DctxFields
  <2> HIDE DEF r
  <2>12. DOMAIN dctx' = DctxFields /\ dctx'.out = kept /\ \A f \in DctxFields \ {"out"} : dctx'[f] = r[f]
    BY <2>10, <2>11 DEF DctxFields
  <2>13. /\ DOMAIN dctx' = DctxFields /\ dctx'.stage = dctx.stage /\ dctx'.left = dctx.left
         /\ dctx'.max = dctx.max /\ dctx'.linked = dctx.linked /\ dctx'.cap = dctx.cap
         /\ dctx'.dict = v /\ dctx'.out = kept
         /\ dctx'.start = dctx.start /\ dctx'.size = dctx.size /\ dctx'.done = dctx.done /\ dctx'.xxh = dctx.xxh
    BY <2>11, <2>12 DEF DctxFields
  <2>14. Given' = Given /\ DictEnd' = kept /\ Reading'
    BY <2>2, <2>9, <2>13 DEF Given, DictEnd, Reading
  <2>15. Shapes'
    <3>1. IsDctx(dctx')
      BY <1>5, <2>4, <2>9, <2>13 DEF IsDctx
    <3> QED BY <1>1, <1>2, <1>3, <2>7, <3>1 DEF Shapes
  <2>16. Allocated' /\ Hash' /\ Block'
    BY <1>1, <1>8, <2>2, <2>7, <2>13 DEF Allocated, Hash, Block, Reading
  <2>17. Placed'
    <3>1. Tmp # NULL /\ kept <= dctx.cap
      BY <2>3, <2>4, SMT DEF Tmp, NULL
    <3> QED BY <1>8, <2>2, <2>9, <2>13, <2>14, <3>1 DEF Placed
  <2>18. Remembered'
    <3>1. Memory(tmp', dst', v.where) = tmp'
      BY <2>9 DEF Memory
    <3> QED BY <1>8, <2>8, <2>9, <2>13, <2>14, <3>1 DEF Remembered, g
  <2> QED BY <1>4, <2>15, <2>16, <2>17, <2>18 DEF HInv
<1> QED BY <1>6, <1>7, <1>8

\* What is kept of the history when a block goes to tmpOut.
LEMMA TruncatedIs ==
  ASSUME HInv, Reading, dctx.linked, dctx.stage # "flushOut"
  PROVE  /\ IsDict(Truncated.dict) /\ Truncated.dict.where = dctx.dict.where
         /\ Truncated.tmp \in Seq(Int) /\ Len(Truncated.tmp) = Len(tmp)
         /\ Truncated.dict.where = Tmp => Truncated.dict.at = 0 /\ Truncated.dict.size <= 2 * KB64
         /\ RightAt(Memory(Truncated.tmp, dst, Truncated.dict.where), Truncated.dict.at + Truncated.dict.size,
                    Truncated.dict.size, Given, dctx.done)
<1> DEFINE size == dctx.dict.size
<1> DEFINE end  == DictEnd
<1> DEFINE g    == Given
<1> DEFINE done == dctx.done
<1>1. Shapes /\ Allocated /\ Placed /\ Remembered /\ IsDctx(dctx)
  BY DEF HInv, Shapes
<1>2. /\ size \in Nat /\ KB64 \in Nat /\ KB64 > 0 /\ end \in Nat /\ IsDict(dctx.dict) /\ end = dctx.dict.at + size
      /\ dctx.dict.where = Tmp => dctx.dict.at = 0 /\ size <= dctx.cap
      /\ dctx.cap \in Nat /\ tmp \in Seq(Int) /\ g \in Nat /\ done \in Nat /\ g = done
      /\ RightAt(Memory(tmp, dst, dctx.dict.where), end, size, g, done)
  <2>1. KB64 \in Nat /\ KB64 > 0 /\ size \in Nat /\ end \in Nat /\ end = dctx.dict.at + size
    BY <1>1, HistoryAssumption, SMT DEF IsDctx, IsDict, DictEnd
  <2> QED BY <1>1, <2>1, GivenIs DEF IsDctx, Placed, Remembered, Shapes
<1>3. CASE dctx.dict.where = Tmp /\ size > 2 * KB64
  <2> DEFINE t == Copied(0, Tmp, size - KB64, KB64)
  <2>1. Truncated.dict = Dict(Tmp, 0, KB64) /\ Truncated.tmp = t
    BY <1>3 DEF Truncated
  <2>2. end = size /\ Memory(tmp, dst, dctx.dict.where) = tmp /\ Memory(tmp, dst, Tmp) = tmp
    BY <1>2, <1>3, SMT DEF Memory
  <2>3. Len(tmp) = dctx.cap
    BY <1>1, <1>2, <1>3, SMT DEF Allocated
  <2> HIDE DEF size, end, g, done
  <2>4. CopyOf(t, tmp, 0, size - KB64, KB64)
    <3> DEFINE z == 0
    <3> DEFINE a == size - KB64
    <3>1. z \in Nat /\ a \in Int /\ KB64 \in Nat /\ z + KB64 <= Len(tmp) /\ z + KB64 <= a
      BY <1>2, <1>3, <2>3, SMT
    <3>2. tmp \in Seq(Int) /\ Memory(tmp, dst, Tmp) \in Seq(Int) /\ t = Copied(z, Tmp, a, KB64)
      BY <1>2, <2>2
    <3> HIDE DEF z, a, t
    <3>4. Tmp # Tmp \/ a + KB64 <= z \/ z + KB64 <= a
      BY <3>1
    <3>5. CopyOf(Copied(z, Tmp, a, KB64), Memory(tmp, dst, Tmp), z, a, KB64)
      BY <3>1, <3>2, <3>4, CopiedIs
    <3>3. CopyOf(t, tmp, z, a, KB64)
      BY <2>2, <3>2, <3>5
    <3> QED BY <3>3 DEF z, a
  <2> HIDE DEF t
  <2>5. RightAt(t, KB64, KB64, g, done)
    <3> DEFINE z == 0
    <3>1. \A k \in 1 .. g : g - k >= done - KB64 => k <= KB64
      BY <1>2, SMT
    <3>2. z \in Int /\ end \in Int /\ size \in Int /\ KB64 \in Nat /\ KB64 \in Int /\ KB64 <= KB64 /\ g \in Nat /\ done \in Nat /\ z + KB64 = KB64
      BY <1>2, SMT
    <3>3. \A j \in 0 .. KB64 - 1 : In(t, z + j) = In(tmp, end - KB64 + j)
      BY <2>2, <2>4 DEF CopyOf
    <3>4. RightAt(tmp, end, size, g, done)
      BY <1>2, <2>2
    <3> HIDE DEF z
    <3>5. RightAt(t, z + KB64, KB64, g, done)
      BY <3>1, <3>2, <3>3, <3>4, Moved
    <3> QED BY <3>2, <3>5
  <2> DEFINE v == Dict(Tmp, 0, KB64)
  <2>6. v.where = Tmp /\ v.at = 0 /\ v.size = KB64 /\ IsDict(v) /\ v.at + v.size = KB64 /\ v.size <= 2 * KB64
    BY <1>2, SMT DEF Dict, IsDict, Tmp
  <2> HIDE DEF v
  <2>7. Truncated.dict = v /\ Memory(t, dst, v.where) = t
    BY <2>1, <2>6 DEF Memory, v
  <2> QED BY <1>3, <2>1, <2>4, <2>5, <2>6, <2>7 DEF CopyOf, g, done
<1>4. CASE ~ (dctx.dict.where = Tmp /\ size > 2 * KB64)
  <2>1. Truncated.dict = dctx.dict /\ Truncated.tmp = tmp
    BY <1>4 DEF Truncated
  <2>2. dctx.dict.where = Tmp => size <= 2 * KB64
    <3>1. dctx.dict.where = Tmp => ~ (size > 2 * KB64)
      BY <1>4
    <3> HIDE DEF size
    <3> QED BY <1>2, <3>1, SMT
  <2> QED BY <1>2, <2>1, <2>2
<1> QED BY <1>3, <1>4

LEMMA DecodeToTmpKeeps ==
  ASSUME HInv, NEW n \in Nat, DecodeToTmp(n)
  PROVE  HInv'
<1> DEFINE t     == IF dctx.linked THEN Truncated ELSE [dict |-> dctx.dict, tmp |-> tmp]
<1> DEFINE where == t.dict.where
<1> DEFINE size  == t.dict.size
<1> DEFINE out   == IF ~ dctx.linked THEN dctx.out ELSE IF where = Tmp THEN size ELSE Least(size, KB64)
<1> DEFINE g     == Given
<1> DEFINE done  == dctx.done
<1>1. Shapes /\ Allocated /\ Placed /\ Delivered /\ Remembered /\ Hash /\ IsDctx(dctx) /\ DOMAIN dctx = DctxFields
  BY DEF HInv, Shapes, IsDctx
<1>2. /\ call.active /\ dctx.stage = "blockHeader" /\ n <= dctx.max /\ dst' = dst /\ call' = call /\ frames' = frames
      /\ dctx' = [Decoded(n) EXCEPT !.stage = "flushOut", !.dict = t.dict, !.out = out, !.start = 0, !.size = n]
      /\ tmp' = Laid(t.tmp, out, n, dctx.max, done)
  BY SMT, <1>1 DEF DecodeToTmp, Laid, IsDctx
<1>3. /\ Reading /\ dctx.max \in Nat /\ dctx.cap \in Nat /\ KB64 \in Nat /\ KB64 > 0 /\ KB64 <= dctx.max
      /\ g \in Nat /\ done \in Nat /\ g = done /\ dctx.out \in Nat /\ Len(tmp) = dctx.cap
      /\ (IF dctx.linked THEN dctx.max + 2 * KB64 <= dctx.cap ELSE dctx.max <= dctx.cap)
  <2>1. /\ Reading /\ dctx.max \in Nat /\ dctx.cap \in Nat /\ KB64 \in Nat /\ KB64 > 0 /\ KB64 <= dctx.max
        /\ g \in Nat /\ done \in Nat /\ g = done /\ dctx.out \in Nat
    BY <1>1, <1>2, GivenIs, HistoryAssumption DEF Reading, Allocated, IsDctx
  <2>2. IF dctx.linked THEN dctx.max + 2 * KB64 <= dctx.cap ELSE dctx.max <= dctx.cap
    BY <1>1, <2>1, SMT DEF Allocated, Needed
  <2>3. dctx.cap > 0
    BY <2>1, <2>2, SMT
  <2> QED BY <1>1, <2>1, <2>2, <2>3 DEF Allocated
<1>4. /\ IsDict(t.dict) /\ t.tmp \in Seq(Int) /\ Len(t.tmp) = Len(tmp)
      /\ where = NULL => size = 0
      /\ where = Tmp => t.dict.at = 0 /\ dctx.linked /\ size <= 2 * KB64
      /\ ~ dctx.linked => t.dict = NoDict /\ dctx.out = 0
      /\ dctx.linked => RightAt(Memory(t.tmp, dst, where), t.dict.at + size, size, g, done)
  <2>1. CASE dctx.linked
    <3>1. t = Truncated /\ Truncated.dict.where = dctx.dict.where
      BY <1>2, <1>3, <2>1, TruncatedIs
    <3>2. where = NULL => size = 0
      <4>1. SUFFICES ASSUME dctx.dict.where = NULL PROVE size = 0
        BY <3>1
      <4>2. Truncated.dict = dctx.dict
        BY <4>1, SMT DEF Truncated, Tmp, NULL
      <4> QED BY <1>1, <3>1, <4>1, <4>2 DEF Placed
    <3> QED BY <1>2, <1>3, <2>1, <3>1, <3>2, TruncatedIs
  <2>2. CASE ~ dctx.linked
    <3>1. t.dict = NoDict /\ t.tmp = tmp /\ dctx.out = 0
      BY <1>1, <2>2 DEF Placed
    <3> QED BY <1>1, <2>2, <3>1, NoDictIs DEF Shapes
  <2> QED BY <2>1, <2>2
<1> HIDE DEF t, g, done
<1>5. /\ out \in Nat /\ out + dctx.max <= dctx.cap
      /\ where = Tmp => size = out
      /\ dctx.linked /\ where # Tmp => out = size \/ out = KB64
      /\ ~ dctx.linked => out = 0
  <2>1. CASE ~ dctx.linked
    <3>1. where # Tmp /\ out = 0
      BY <1>4, <2>1, NoDictIs
    <3> QED BY <1>3, <2>1, <3>1, SMT
  <2>2. CASE dctx.linked /\ where = Tmp
    <3>1. out = size /\ size <= 2 * KB64 /\ size \in Nat
      BY <1>4, <2>2 DEF IsDict
    <3> HIDE DEF size, out, where
    <3> QED BY <1>3, <2>2, <3>1, SMT
  <2>3. CASE dctx.linked /\ where # Tmp
    <3>1. out = Least(size, KB64) /\ size \in Int /\ KB64 \in Int /\ size \in Nat
      BY <1>3, <1>4, <2>3 DEF IsDict
    <3> HIDE DEF size, out, where
    <3>2. out <= size /\ out <= KB64 /\ (out = size \/ out = KB64)
      BY <3>1, LeastIs
    <3>3. out \in Nat
      BY <1>3, <3>1, <3>2
    <3>4. out + dctx.max <= dctx.cap
      BY <1>3, <2>3, <3>2, <3>3, SMT
    <3> QED BY <2>3, <3>2, <3>3, <3>4
  <2> QED BY <2>1, <2>2, <2>3
<1>6. size \in Nat /\ t.dict.at \in Nat
  BY <1>4 DEF IsDict
<1>7. /\ tmp' \in Seq(Int) /\ Len(tmp') = dctx.cap
      /\ \A k \in 0 .. n - 1 : In(tmp', out + k) = done + k
      /\ \A x \in Int : x < out => In(tmp', x) = In(t.tmp, x)
  <2> DEFINE s   == t.tmp
  <2> DEFINE len == dctx.cap
  <2> DEFINE max == dctx.max
  <2> HIDE DEF out, where, size
  <2>1. s \in Seq(Int) /\ Len(s) = len /\ len \in Nat /\ out \in Nat /\ max \in Nat /\ out + max <= len /\ done \in Int
    BY <1>3, <1>4, <1>5
  <2>2. DOMAIN tmp = DOMAIN s
    BY <1>1, <1>4, LenProperties DEF Shapes
  <2>3. n \in 0 .. max /\ tmp' = Laid(s, out, n, max, done)
    BY <1>2, <2>1, SMT
  <2> HIDE DEF s, len, max
  <2>4. LaidOut(tmp', s, len, out, n, done)
    BY <2>1, <2>2, <2>3, BlockIs
  <2> QED BY <2>4 DEF LaidOut, s, len
<1> HIDE DEF out, where, size
<1>8. /\ DOMAIN dctx' = DctxFields /\ dctx'.stage = "flushOut" /\ dctx'.left = dctx.left
      /\ dctx'.max = dctx.max /\ dctx'.linked = dctx.linked /\ dctx'.cap = dctx.cap
      /\ dctx'.dict = t.dict /\ dctx'.out = out
      /\ dctx'.start = 0 /\ dctx'.size = n /\ dctx'.done = done + n /\ dctx'.xxh = Taken(done + n)
  <2> DEFINE v  == t.dict
  <2> DEFINE r0 == Decoded(n)
  <2> DEFINE r1 == [r0 EXCEPT !.stage = "flushOut"]
  <2> DEFINE r2 == [r1 EXCEPT !.dict = v]
  <2> DEFINE r3 == [r2 EXCEPT !.out = out]
  <2> DEFINE r4 == [r3 EXCEPT !.start = 0]
  <2>1. dctx' = [r4 EXCEPT !.size = n]
    BY <1>2
  <2>2. /\ DOMAIN r0 = DctxFields /\ r0.done = done + n /\ r0.xxh = Taken(done + n)
        /\ \A f \in DctxFields \ {"done", "xxh"} : r0[f] = dctx[f]
    BY DecodedIs DEF IsDctx, done
  <2> HIDE DEF r0, v
  <2>3. DOMAIN r1 = DctxFields /\ r1.stage = "flushOut" /\ \A f \in DctxFields \ {"stage"} : r1[f] = r0[f]
    BY <2>2 DEF DctxFields
  <2> HIDE DEF r1
  <2>4. DOMAIN r2 = DctxFields /\ r2.dict = v /\ \A f \in DctxFields \ {"dict"} : r2[f] = r1[f]
    BY <2>3 DEF DctxFields
  <2> HIDE DEF r2
  <2>5. DOMAIN r3 = DctxFields /\ r3.out = out /\ \A f \in DctxFields \ {"out"} : r3[f] = r2[f]
    BY <2>4 DEF DctxFields
  <2> HIDE DEF r3
  <2>6. DOMAIN r4 = DctxFields /\ r4.start = 0 /\ \A f \in DctxFields \ {"start"} : r4[f] = r3[f]
    BY <2>5 DEF DctxFields
  <2> HIDE DEF r4
  <2>7. DOMAIN dctx' = DctxFields /\ dctx'.size = n /\ \A f \in DctxFields \ {"size"} : dctx'[f] = r4[f]
    BY <2>1, <2>6 DEF DctxFields
  <2>8. /\ dctx'.left = dctx.left /\ dctx'.max = dctx.max /\ dctx'.linked = dctx.linked /\ dctx'.cap = dctx.cap
    BY <2>2, <2>3, <2>4, <2>5, <2>6, <2>7 DEF DctxFields
  <2>9. dctx'.stage = "flushOut" /\ dctx'.dict = v /\ dctx'.out = out /\ dctx'.start = 0 /\ dctx'.done = done + n
        /\ dctx'.xxh = Taken(done + n)
    BY <2>2, <2>3, <2>4, <2>5, <2>6, <2>7 DEF DctxFields
  <2> QED BY <2>7, <2>8, <2>9 DEF v
<1>9. Given' = g /\ Reading' /\ DictEnd' = t.dict.at + size
  <2>1. Given' = (done + n) - (n - 0)
    BY <1>8 DEF Given
  <2>2. (done + n) - (n - 0) = g
    BY <1>3, SMT
  <2> QED BY <1>8, <2>1, <2>2 DEF Reading, DictEnd, size
<1>10. Shapes'
  <2>1. IsDctx(dctx')
    BY <1>1, <1>3, <1>4, <1>5, <1>8 DEF IsDctx
  <2> QED BY <1>1, <1>2, <1>7, <2>1 DEF Shapes
<1>11. Allocated'
  <2>1. 0 <= n /\ n <= dctx.max /\ n <= done + n
    BY <1>2, <1>3, SMT
  <2> QED BY <1>1, <1>3, <1>5, <1>7, <1>8, <2>1 DEF Allocated, Reading, Needed
<1>12. Placed'
  <2>1. where = Tmp => size <= dctx.cap /\ size = out + 0
    BY <1>3, <1>5, SMT
  <2> QED BY <1>2, <1>4, <1>5, <1>8, <1>9, <2>1 DEF Placed, where, size
<1>13. Delivered'
  BY <1>1, <1>2, <1>3, <1>9 DEF Delivered, g
<1>14. Block'
  <2>1. SUFFICES ASSUME NEW k \in 0 .. n - 1 PROVE In(tmp', out + k) = ((done + n) - n) + k
    BY <1>8 DEF Block
  <2>2. ((done + n) - n) + k = done + k
    BY <1>3, SMT
  <2> QED BY <1>7, <2>1, <2>2
<1>15. Remembered'
  <2>1. SUFFICES ASSUME dctx.linked PROVE Remembered'
    BY <1>8 DEF Remembered
  <2> DEFINE M == Memory(tmp', dst', where)
  <2> DEFINE m == Memory(t.tmp, dst, where)
  <2> DEFINE end == t.dict.at + size
  <2>2. RightAt(m, end, size, g, done) /\ end \in Int /\ end \in Nat
    BY <1>4, <1>6, <2>1
  <2>3. RightAt(m, end, size, g, done + n)
    <3> HIDE DEF end, m
    <3>1. done + n \in Nat /\ done <= done + n /\ size \in Int /\ end \in Int
      BY <1>3, <1>6, <2>2, SMT
    <3> QED BY <1>3, <2>2, <3>1, Narrowed
  <2>4. RightAt(M, end, size, g, done + n)
    <3>1. CASE where = Tmp
      <4>1. M = tmp' /\ m = t.tmp /\ end = size /\ size = out
        BY <1>4, <1>5, <1>6, <3>1, SMT DEF Memory
      <4> HIDE DEF M, m, end
      <4>2. \A k \in 1 .. g : end - k \in Int /\ end - k < out
        BY <1>5, <4>1, SMT
      <4> QED BY <1>7, <2>3, <4>1, <4>2 DEF RightAt
    <3>2. CASE where # Tmp
      <4>1. M = m
        BY <1>2, <3>2 DEF Memory
      <4> QED BY <2>3, <4>1
    <3> QED BY <3>1, <3>2
  <2>5. \A k \in 1 .. g : g - k >= (done + n) - KB64 => k <= out + 0
    <3>1. TAKE k \in 1 .. g
    <3>2. HAVE g - k >= (done + n) - KB64
    <3>3. k <= size
      BY <2>3, <3>2 DEF RightAt
    <3>4. k <= KB64
      BY <1>3, <3>2, SMT
    <3>5. size = out \/ out = KB64
      BY <1>5, <2>1
    <3> QED BY <1>5, <3>3, <3>4, <3>5, SMT
  <2> QED BY <1>8, <1>9, <2>4, <2>5 DEF Remembered, where, size
<1>16. Hash'
  BY <1>8 DEF Hash
<1> QED BY <1>10, <1>11, <1>12, <1>13, <1>14, <1>15, <1>16 DEF HInv

LEMMA HInvStart == Init => HInv
<1>1. SUFFICES ASSUME Init PROVE HInv
  OBVIOUS
<1>2. << >> \in Seq(Int) /\ Len(<< >>) = 0
  BY EmptySeq
<1>3. /\ dctx = [stage |-> "init", linked |-> FALSE, max |-> 0, cap |-> 0, dict |-> NoDict,
                 left |-> 0, out |-> 0, start |-> 0, size |-> 0, done |-> 0, xxh |-> XXH32_reset]
      /\ tmp = << >> /\ dst = [b \in {1, 2} |-> << >>] /\ frames = 0
      /\ call \in [active : {FALSE}, buf : {1}, start : {0}, room : {0}, stable : Stable]
  BY <1>1 DEF Init, NewDctx
<1>4. IsCall(call) /\ ~ call.active
  <2>1. DOMAIN call = {"active", "buf", "start", "room", "stable"}
    BY <1>3
  <2>2. call.active = FALSE /\ call.buf = 1 /\ call.start = 0 /\ call.room = 0 /\ call.stable \in BOOLEAN
    BY <1>3, HistoryAssumption
  <2>3. 0 \in Nat /\ call.active \in BOOLEAN
    BY <2>2, Zenon
  <2> QED BY <2>1, <2>2, <2>3, Zenon DEF IsCall
<1>5. IsDctx(dctx)
  <2>1. dctx.linked \in BOOLEAN
    BY <1>3, Zenon
  <2>2. 0 \in Nat /\ dctx.stage \in {"init", "blockHeader", "copyDirect", "flushOut"}
    BY <1>3
  <2>3. DOMAIN dctx = DctxFields
    BY <1>3 DEF DctxFields
  <2> QED BY <1>3, <2>1, <2>2, <2>3, NoDictIs, Zenon DEF IsDctx
<1>6. Shapes
  BY <1>2, <1>3, <1>4, <1>5 DEF Shapes
<1>7. dctx.cap = 0 /\ dctx.stage = "init" /\ dctx.dict = NoDict /\ dctx.out = 0 /\ dctx.done = 0 /\ dctx.xxh = XXH32_reset
  BY <1>3
<1>8. Allocated /\ Block /\ Remembered /\ Delivered
  BY <1>4, <1>7, SMT DEF Allocated, Block, Remembered, Delivered, Reading
<1>9. Placed /\ Hash
  BY <1>4, <1>7, NoDictIs, HashStarts DEF Placed, Hash
<1> QED BY <1>6, <1>8, <1>9 DEF HInv

LEMMA HInvKept == HInv /\ [Next]_vars => HInv'
<1>1. SUFFICES ASSUME HInv, [Next]_vars PROVE HInv'
  OBVIOUS
<1>2. ASSUME NEW room \in Rooms, NEW continues \in BOOLEAN, Call(room, continues) PROVE HInv'
  BY <1>1, <1>2, CallKeeps
<1>3. ASSUME NEW linked \in BOOLEAN, NEW max \in BlockSizes, BeginFrame(linked, max) \/ BeginFails(linked, max) PROVE HInv'
  BY <1>1, <1>3, BeginFrameKeeps, BeginFailsKeeps
<1>4. ASSUME NEW n \in 0 .. dctx.max, RawBlock(n) \/ CopyDirect(n) \/ DecodeDirect(n) \/ DecodeToTmp(n) PROVE HInv'
  <2>1. n \in Nat
    BY SMT
  <2> QED BY <1>1, <1>4, <2>1, RawBlockKeeps, CopyDirectKeeps, DecodeDirectKeeps, DecodeToTmpKeeps
<1>5. CASE FlushOut
  BY <1>1, <1>5, FlushOutKeeps
<1>6. CASE EndFrame
  <2>1. IsCall(call') /\ ~ call'.active
    BY <1>1, <1>6 DEF EndFrame, HInv, Shapes, IsCall
  <2> QED BY <1>1, <1>6, <2>1, ResetKeeps DEF EndFrame
<1>7. CASE Abandon
  <2>1. IsCall(call') /\ ~ call'.active
    BY <1>1, <1>7 DEF Abandon, HInv, Shapes
  <2> QED BY <1>1, <1>7, <2>1, ResetKeeps DEF Abandon
<1>8. CASE Return
  BY <1>1, <1>8, ReturnKeeps
<1>9. CASE UNCHANGED vars
  <2>1. dctx' = dctx /\ tmp' = tmp /\ dst' = dst /\ call' = call /\ frames' = frames
    BY <1>9 DEF vars
  <2>2. Given' = Given /\ DictEnd' = DictEnd /\ Reading' = Reading
    BY <2>1 DEF Given, DictEnd, Reading
  <2>3. Shapes' /\ Allocated' /\ Placed' /\ Delivered' /\ Block' /\ Remembered' /\ Hash'
    BY <1>1, <2>1, <2>2 DEF HInv, Shapes, Allocated, Placed, Delivered, Block, Remembered, Hash
  <2> QED BY <2>3 DEF HInv
<1> QED BY <1>1, <1>2, <1>3, <1>4, <1>5, <1>6, <1>7, <1>8, <1>9 DEF Next

\* Whatever blocks a frame has and however its calls are cut, tmpOutBuffer and
\* the caller's buffers hold what LZ4F_dctx says they hold.
THEOREM DecoderRemembers == Spec => []HInv
BY HInvStart, HInvKept, PTL DEF Spec

LEMMA ByteIs == ASSUME NEW where, NEW a PROVE Byte(where, a) = In(Memory(tmp, dst, where), a)
BY DEF Byte, In, Memory

\* The window of the next block lies at the end of the dictionary, unspoiled,
\* through every way LZ4F_updateDict goes on, moves or copies it.
THEOREM HistoryAlwaysRight == Spec => []HistoryRight
<1>1. HInv => HistoryRight
  <2>1. SUFFICES ASSUME HInv, Reading, dctx.linked, NEW k \in Window
                 PROVE  k <= dctx.dict.size /\ Byte(dctx.dict.where, DictEnd - k) = Given - k
    BY DEF HistoryRight, Reading
  <2>2. k \in 1 .. Given /\ Given - k >= dctx.done - KB64
    BY DEF Window
  <2> QED BY <2>1, <2>2, ByteIs DEF HInv, Remembered, RightAt
<1> QED BY <1>1, DecoderRemembers, PTL

\* Output that waits in tmpOut is what was decoded there.
THEOREM WaitingNeverSpoiled == Spec => []WaitingIntact
<1>1. HInv => WaitingIntact
  <2>1. SUFFICES ASSUME HInv, dctx.stage = "flushOut", NEW k \in 0 .. dctx.size - dctx.start - 1
                 PROVE  Byte(Tmp, dctx.out + dctx.start + k) = Given + k
    BY DEF WaitingIntact
  <2> DEFINE out == dctx.out
  <2> DEFINE size == dctx.size
  <2> DEFINE st == dctx.start
  <2> DEFINE done == dctx.done
  <2>2. /\ out \in Nat /\ st \in Nat /\ size \in Nat /\ done \in Nat /\ Given = done - (size - st)
        /\ \A i \in 0 .. size - 1 : In(tmp, out + i) = done - size + i
    BY <2>1 DEF HInv, Shapes, IsDctx, Given, Block
  <2>3. Memory(tmp, dst, Tmp) = tmp
    BY DEF Memory
  <2>6. k \in 0 .. size - st - 1
    OBVIOUS
  <2> HIDE DEF out, size, st, done
  <2>4. /\ st + k \in 0 .. size - 1 /\ out + (st + k) = out + st + k
        /\ done - size + (st + k) = (done - (size - st)) + k
    BY <2>2, <2>6, SMT
  <2>5. In(tmp, out + (st + k)) = done - size + (st + k)
    BY <2>2, <2>4
  <2> QED BY <2>2, <2>3, <2>4, <2>5, ByteIs DEF out, st
<1> QED BY <1>1, DecoderRemembers, PTL

\* Nothing is laid, moved or decoded past the end of tmpOutBuffer.
THEOREM CopiesStayWithin == Spec => []WithinTmpOut
<1>1. HInv => WithinTmpOut
  BY DEF HInv, Allocated, Placed, WithinTmpOut
<1> QED BY <1>1, DecoderRemembers, PTL

\* The running XXH32 is the hash of the content so far, whatever the sizes of
\* the pieces it was given.
THEOREM ChecksumAlwaysRight == Spec => []ChecksumRight
<1>1. HInv => ChecksumRight
  <2>1. SUFFICES ASSUME HInv PROVE XXH32_digest(dctx.xxh) = XXH32(Content(0, dctx.done))
    BY DEF ChecksumRight
  <2>2. dctx.xxh = Taken(dctx.done) /\ dctx.done \in Nat
    BY <2>1 DEF HInv, Hash, Shapes, IsDctx
  <2> QED BY <2>2, HashOfAll
<1> QED BY <1>1, DecoderRemembers, PTL
=============================================================================
