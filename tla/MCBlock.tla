------------------------------ MODULE MCBlock ------------------------------
(* Lengths on both sides of every limit that the code sets: tokens of 15,   *)
(* bytes of 255, copies of 8, 16, 18 and 32, patterns shorter than a word.  *)
EXTENDS Block

MCSizes     == {0, 13, 20, 79, 110, 330}
MCDictSizes == {0, 24}
M(l, o, n)  == [lit |-> l, offset |-> o, length |-> n]
MCMatches ==
  { M(8, o, 4) : o \in {8, 30} } \cup { M(0, o, n) : o \in {1, 3, 8, 9}, n \in {4, 19} }
  \cup { M(9, o, 18) : o \in {2, 5, 6, 7, 15, 16} } \cup { M(l, 4, 40) : l \in {3, 14, 15} }
  \cup { M(1, o, 279) : o \in {1, 20} } \cup { M(270, 200, 30) }
MCExtra == {-8, -1, 0, 40}
MCCuts  == {0, 1, 7, 13}
=============================================================================
