SPECIFICATION MCSpec
CONSTANTS
  Companies = {c1, c2}
  Queries = {q1}
  Requests = {r1, r2}
  MaxSwitches = 1
  None = None
PROPERTIES NeverBlocks
CHECK_DEADLOCK FALSE
