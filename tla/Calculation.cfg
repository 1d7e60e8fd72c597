SPECIFICATION FairSpec
CONSTANTS
  Calls = {c1, c2}
  Fields <- MCFields
  Vals <- MCVals
  Blank = 0
  Class <- MCClass
  NoCand = NoCand
  NoPatch = NoPatch
  MaxClock = 5
  MaxGen = 1
  MaxEdits = 1
INVARIANTS CandidatesMatch StampMeansCandidates PicksFollowCandidates
PROPERTIES SubmitCarriesCalculation SubmittedFiguresStay RefreshNeverMismatches DraftGetsCalculated
CHECK_DEADLOCK FALSE
