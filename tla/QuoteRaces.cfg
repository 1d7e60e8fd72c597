SPECIFICATION Spec
CONSTANTS
  Calls = {c1, c2}
  Companies = {home, away}
  Home = home
  Picks = {p1}
  Prices = {low}
  None = None
  MaxDocs = 1
  MaxRounds = 2
SYMMETRY Symmetry
INVARIANTS QuotedHasDocument
PROPERTIES ForeignUntouched UnseenEditsSurvive
CHECK_DEADLOCK FALSE
