CONSTANTS
  v1 = v1
  v2 = v2
  v3 = v3
  Batches = 3
  Calls = 2
  Gated = {2, 3}
  Reviewer = {v1, v2}
  MaxFaults = 1
SPECIFICATION Spec
INVARIANTS AtMostOnce OnlyApproved ToldAsRecorded
INVARIANTS NothingForgotten RecoverableUnlessFault
PROPERTIES StopsInDoubt KeepsPromise
SYMMETRY Symmetry
CHECK_DEADLOCK FALSE
