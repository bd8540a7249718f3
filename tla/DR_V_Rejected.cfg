CONSTANTS
  v1 = v1
  v2 = v2
  v3 = v3
  Batches = 2
  Calls = 1
  Gated = {1, 2}
  Reviewer = {v1, v2}
  MaxFaults = 0
SPECIFICATION Spec
INVARIANT RejectedNeverRan
SYMMETRY Symmetry
CHECK_DEADLOCK FALSE
