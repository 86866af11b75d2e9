-------------------------------- MODULE Sums --------------------------------
(* Running sums, by which the modules add up lengths of blocks and frames.   *)
EXTENDS Integers

\* w[1] + ... + w[k]
Sum(w, k) ==
  LET upTo[j \in 0 .. k] == IF j = 0 THEN 0 ELSE upTo[j - 1] + w[j]
  IN  upTo[k]
=============================================================================
