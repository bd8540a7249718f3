CONSTANTS
  r1 = r1
  r2 = r2
  r3 = r3
  r4 = r4
  t1 = t1
  t2 = t2
  w1 = w1
  w2 = w2
  None = None
  Trace = {t1, t2}
  Worker = {w1}
  Req = {r1, r2}
  MaxConcurrent = 1
  Outcomes = {"SUCCESS", "FAILED"}
  Admin = FALSE
  MaxFaults = 0
SPECIFICATION FairSpec
PROPERTIES RowsSettle CancelStopsHandler
