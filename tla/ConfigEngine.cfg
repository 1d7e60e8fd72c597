SPECIFICATION Spec
CONSTANTS
  pa = pa
  pb = pb
  pc = pc
  free = free
  Params <- MCParams
  Values <- MCValues
  Domain <- MCDomain
  Given <- MCGiven
  Models <- MCModels
  Cap = 5
  Rounds = 8
  Unset = Unset
  Null = Null
INVARIANTS StandsAlone Complete
CHECK_DEADLOCK FALSE
