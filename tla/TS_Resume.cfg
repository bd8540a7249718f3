CONSTANTS
  r1 = r1
  r2 = r2
  r3 = r3
  r4 = r4
  t1 = t1
  t2 = t2
  w1 = w1
  w2 = w2
  None = None
  Trace = {t1}
  Worker = {w1}
  Req = {r1, r2, r3}
  MaxConcurrent = 1
  Outcomes = {"SUCCESS", "FAILED", "WAITING_APPROVAL", "WAITING_RECONCILIATION"}
  Admin = FALSE
  MaxFaults = 1
SPECIFICATION Spec
INVARIANTS SingleRun OwnedRowIsActive
PROPERTY NoResurrection
SYMMETRY Symmetry
VIEW View
