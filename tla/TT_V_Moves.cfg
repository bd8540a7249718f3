CONSTANTS
  r1 = r1
  r2 = r2
  t1 = t1
  w1 = w1
  k1 = k1
  None = None
  Trace = {t1}
  Worker = {w1}
  Req = {r1, r2}
  Tool = {k1}
  Asked = {"INIT", "SUCCESS", "CANCELLED"}
  MaxConcurrent = 1
  Outcomes = {"SUCCESS", "WAITING_APPROVAL"}
  Admin = FALSE
  MaxFaults = 0
SPECIFICATION ToolSpec
PROPERTY ToolMovesValidly
