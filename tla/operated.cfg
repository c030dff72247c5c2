CONSTANTS
  t1 = t1 q1 = q1 g = g t2 = t2 q2 = q2 r1 = r1 r2 = r2 r3 = r3 c1 = c1 c2 = c2
  Node <- GatedNode
  Type <- GatedType
  Deps <- GatedDeps
  Pair <- GatedPair
  Order <- GatedOrder
  AutoApprove = {}
  Skipped = {}
  Outcome = {"pass","error","limit","budget","reject_kept"}
  Verify = {}
  BuildGate = {}
  MaxRounds = 3
  MaxRetries = 1
  MaxConcurrent = 1
  Run = {r1,r2}
  Client = {c1}
  Requests = {"approve","feedback","skip","retry","start","pause","repair","edit","edge_approve","edge_reject","suspend","resume","force_close","revise","revalidate"}
  Together = {"approve","edge_reject","pause","start"}
  Define = {t1}
  Build = {t1}
  Change = {"major","minor","error","budget"}
SPECIFICATION RevisedSpec
SYMMETRY Symmetry
INVARIANTS NothingLost
PROPERTY ApprovalFresh
VIEW Seen
