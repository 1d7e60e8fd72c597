SPECIFICATION Spec
CONSTANTS
  Staff = {s1, s2}
  Buyers = {b1}
  Calls = {c1, c2}
  InputVals = {blank, other}
  BlankInputs = blank
  None = None
  MaxEvents = 7
SYMMETRY Symmetry
INVARIANTS TypeOK NothingHidden AnsweredOnce AssigneeFollowsTimeline
PROPERTIES ReturnedDisclosed EditsKeepTurns AcceptIsFinal ImplementsNegotiation
CHECK_DEADLOCK FALSE
