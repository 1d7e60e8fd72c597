SPECIFICATION Spec
CONSTANTS
  Threads = {t1, t2}
  Runs = {r1, r2, r3}
  MaxCalls = 2
  Limit = 2
  None = None
INVARIANTS LeaseKept SpendBounded
PROPERTIES RunsApart
SYMMETRY Symmetry
CHECK_DEADLOCK FALSE
