SPECIFICATION Spec
CONSTANTS
  Sizes <- MCSizes
  DictSizes <- MCDictSizes
  Matches <- MCMatches
  MaxMatches = 2
  Extra <- MCExtra
  Cuts <- MCCuts
INVARIANTS
  RoundTrip
  ReturnedIsTrue
  InBounds
  NeverFails
