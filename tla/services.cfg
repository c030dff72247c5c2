CONSTANTS
  w1 = w1
  w2 = w2
  t1 = t1
  t2 = t2
  t3 = t3
  t4 = t4
  t5 = t5
  u1 = u1
  u2 = u2
  u3 = u3
  a1 = a1
  a2 = a2
  o1 = o1
  N = 2
  Worker = {w1,w2}
  Fault = {"reserve","record","snapshot"}
  MaxGenerations = 2
  Actor = {t3,t4,t5}
  Nobody = Nobody
  Body = 2
  User = {u1,u2,u3}
  FailureThreshold = 3
  HalfOpenMax = 2
  MaxRecords = 9
  Agent = {a1,a2}
  Operator = {o1}
  MaxSaves = 2
  Caller = {t1,t2}
  Accounts <- MCAccounts
  Tier <- MCTier
  Slots = 1
  CallRetries = 1
  FailureLimit = 1
  OverloadLimit = 1
  Warn = 1
  MaxCalls = 2
  MaxEvents = 1
  Client = {t1,t2}
  Docs = 3
  DocPhase <- MCPhase
  When <- MCWhen
  IntraPhase <- MCBefore
  Plans <- MCPlans
  Forms <- MCForms
  MaxEngagements = 2
  MaxDags = 2
  MaxRequests = 2
  AnswerPart = {1, 2}
  RequiredParts = {1}
  PartSize = 12
  MinSize = 13
  LongCode = 20
  TaskRetries = 3
  TaskReworks = 1
  Heading = {1, 2}
  RequiredHeadings = {1, 2}
  Score = {10, 35, 90}
  Issue <- MCIssues
  QaRetries = 3
  QaReworks = 1
  Project = {"a"}
  Port = {1, 2}
  Lists <- MCLists
  Categories = {"layout", "ops"}
  Unfit = {"ops"}
  Up <- MCUp
  Down <- MCDown
  Gate <- MCGate
  None = "none"
  EnoughNamed = 2
  Few = 2
  Tens = 2
  MaxGroups = 2
  MaxReworks = 1
  Node = {1, 2, 3}
  PhaseOf <- MCPhaseOf
  Allotted <- MCAllotted
  Shortage = 2
  MaxReallocs = 2
  MaxUse = 2
  Pieces = 3
  MaxTries = 3
  Pages = 4
  Layouts = {"wide","narrow"}
  MaxPattern = 2
  MaxBatch = 2
  MaxAttempts = 2
  MaxTokens = 3
  LeastSize = 2
  MaxFix = 1
  Screens = 2
  ManyScreens = 1
  Repairer = {t1,t2}
  FirstNodes = 2
  MaxInjections = 1
  MaxHops = 2
  MaxMiscounts = 1
  Slug <- MCSlug
  Needs <- MCNeeds
  FirstLibrary = {"card"}
  ScreenLists <- MCScreenLists
  LabelTables <- MCLabelTables
  Unlabelled = "none"
  SplitThreshold = 3
  LargestGroup = 2
  SmallestGroup = 2
  MaxEdits = 1
  MaxPipelineStops = 1
SPECIFICATION AllSpec
SYMMETRY Symmetry
CHECK_DEADLOCK FALSE
INVARIANTS FirstReserveExclusive FirstReportHonest Whole VersionsWhole FailsOver SlotsReturned OneConversion ConvertedWhole GraphsShaped CompletedValid VerdictStands TriesBounded BudgetKept AnswerHonest PagesCovered VerdictsAgree RepairsSortable PagesBuilt 
PROPERTIES LockIsFifo BreakerHonest OrderKept 
