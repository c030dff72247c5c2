CONSTANTS
  w1 = w1 w2 = w2
  N = 2
  Worker = {w1}
  Fault = {}
  MaxGenerations = 2
SPECIFICATION Spec
CHECK_DEADLOCK FALSE
INVARIANTS CoverageHonest
