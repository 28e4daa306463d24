SPECIFICATION Spec
CONSTANTS
  r1 = r1
  r2 = r2
  r3 = r3
  f1 = f1
  f2 = f2
  Req <- ThreeReq
  File <- TwoFiles
  PlanQuotas <- TwoPlans
  FirstQuota = 2
  Roll = 1
  Failures <- OneOfEach
  MaxInFlight = 4
  MaxTime = 1
  MaxPlanChanges = 1
  MaxFaults = 1
SYMMETRY SymmetryBoth
INVARIANTS
  TypeOK
  UsedWithinPlan
  RowsHaveFiles
  LiveDocHasExtraction
  OneUploadPerContent
PROPERTIES
  RefusalIsFree
CHECK_DEADLOCK FALSE
