CONSTANTS
  t1 = t1 q1 = q1 g = g t2 = t2 q2 = q2 r1 = r1 r2 = r2 r3 = r3
  Node <- PhasesNode
  Type <- PhasesType
  Deps <- PhasesDeps
  Pair <- PhasesPair
  Order <- PhasesOrder
  AutoApprove = {g}
  Skipped = {}
  Outcome = {"pass","build","error","limit","token","defect","reject_kept"}
  Verify = {t2}
  BuildGate = {g}
  MaxRounds = 0
  MaxRetries = 2
  MaxConcurrent = 2
  Run = {r1,r2,r3}
SPECIFICATION Spec
INVARIANT GatesNeverRun
INVARIANT ApprovedTaskDone
PROPERTIES RuleEight ApprovalIsCurrent GateJustified CompletedIsDone
