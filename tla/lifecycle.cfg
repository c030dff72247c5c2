CONSTANTS
  t1 = t1 q1 = q1 g = g t2 = t2 q2 = q2 r1 = r1 r2 = r2 r3 = r3 c1 = c1
  Node <- PairNode
  Type <- PairType
  Deps <- PairDeps
  Pair <- PairPair
  Order <- PairOrder
  AutoApprove = {}
  Skipped = {}
  Outcome = {"pass","error","token"}
  Verify = {}
  BuildGate = {}
  MaxRounds = 0
  MaxRetries = 1
  MaxConcurrent = 1
  Run = {r1}
  Client = {c1}
  Requests = {}
  Together = {}
  Define = {t1}
  Build = {t1}
  Change = {"error"}
  RetryLimit = 1
  MaxResumes = 1
  MaxText = 2
  Text = {"transient"}
  PidReused = FALSE
  MaxTrouble = 1
  ResumeBound = 1
SPECIFICATION LifecycleFair
INVARIANT RestartLosesNothing
PROPERTY OrphansRecovered
