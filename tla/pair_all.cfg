CONSTANTS
  t1 = t1 q1 = q1 g = g t2 = t2 q2 = q2 r1 = r1 r2 = r2 r3 = r3
  Node <- PairNode
  Type <- PairType
  Deps <- PairDeps
  Pair <- PairPair
  Order <- PairOrder
  AutoApprove = {}
  Skipped = {}
  Outcome = {"pass","build","approve","error","limit","token","budget","defect","reject_kept","reject_invalid","reject_completed"}
  Verify = {t1}
  BuildGate = {}
  MaxRounds = 3
  MaxRetries = 2
  MaxConcurrent = 2
  Run = {r1,r2,r3}
SPECIFICATION Spec
SYMMETRY Symmetry
INVARIANTS TypeOK AdvanceLegal NothingStranded
