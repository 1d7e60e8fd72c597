SPECIFICATION Spec
CONSTANTS
  Calls = {c1}
  Companies = {home}
  Home = home
  Picks = {p1, p2}
  Prices = {low}
  None = None
  MaxDocs = 3
  MaxRounds = 3
SYMMETRY Symmetry
INVARIANTS OneOpenPerCommand QuotedAsRecorded
PROPERTIES RequoteMovesForward
CHECK_DEADLOCK FALSE
