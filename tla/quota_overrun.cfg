SPECIFICATION Spec
CONSTANTS
  r1 = r1
  r2 = r2
  r3 = r3
  f1 = f1
  f2 = f2
  Req <- ThreeReq
  File <- TwoFiles
  PlanQuotas <- OnePlan
  FirstQuota = 2
  Roll = 1
  Failures <- OneOfEach
  MaxInFlight = 2
  MaxTime = 0
  MaxPlanChanges = 0
  MaxFaults = 0
INVARIANTS
  BilledWithinQuota
CHECK_DEADLOCK FALSE
