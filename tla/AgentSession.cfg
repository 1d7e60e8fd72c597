SPECIFICATION FairSpec
CONSTANTS
  Callers = {c1, c2}
  Starter = start
  Logins <- MCLogins
  None = None
  MaxCalls = 2
  MaxIdled = 1
INVARIANTS OneSlot RetriedOnNewer
PROPERTIES RenewedOnDenial CallsEnd
CHECK_DEADLOCK FALSE
