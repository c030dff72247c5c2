CONSTANTS
  t1 = t1 q1 = q1 g = g t2 = t2 q2 = q2 r1 = r1 r2 = r2 r3 = r3
  Node <- SideNode
  Type <- SideType
  Deps <- SideDeps
  Pair <- SidePair
  Order <- SideOrder
  AutoApprove = {}
  Skipped = {}
  Outcome = {"pass","build","error","reject_kept"}
  Verify = {}
  BuildGate = {}
  MaxRounds = 0
  MaxRetries = 1
  MaxConcurrent = 2
  Run = {r1,r2,r3}
SPECIFICATION Spec
SYMMETRY Symmetry
INVARIANTS OneOwner SlotsBounded ClaimsBounded
