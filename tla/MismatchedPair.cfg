SPECIFICATION Spec
CONSTANTS
  Calls = {c1, c2}
  Fields <- MCFields
  Vals <- MCVals
  Blank = 0
  Class <- MCClass
  NoCand = NoCand
  NoPatch = NoPatch
  MaxClock = 7
  MaxGen = 0
  MaxEdits = 2
SYMMETRY Symmetry
INVARIANTS CandidatesMatch
CHECK_DEADLOCK FALSE
