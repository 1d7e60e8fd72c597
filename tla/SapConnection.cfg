SPECIFICATION MCSpec
CONSTANTS
  Companies = {c1, c2}
  Queries = {q1, q2}
  Requests = {r1, r2, r3}
  MaxSwitches = 1
  None = None
INVARIANTS FreshIsRight CurrencyIsCompanys
PROPERTIES EndsOrHangs
CHECK_DEADLOCK FALSE
