CONSTANTS
  t1 = t1 q1 = q1 g = g t2 = t2 q2 = q2 r1 = r1 r2 = r2 r3 = r3 c1 = c1 c2 = c2
  Node <- PairNode
  Type <- PairType
  Deps <- PairDeps
  Pair <- PairPair
  Order <- PairOrder
  AutoApprove = {}
  Skipped = {}
  Outcome = {"pass","error"}
  Verify = {}
  BuildGate = {}
  MaxRounds = 0
  MaxRetries = 1
  MaxConcurrent = 1
  Run = {r1}
  Client = {c1}
  Requests = {"revise"}
  Together = {}
  Define = {t1}
  Build = {t1}
  Change = {"major"}
SPECIFICATION RevisedSpec
PROPERTY RevisionReruns
