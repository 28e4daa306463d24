SPECIFICATION Spec
CONSTANTS
  r1 = r1
  r2 = r2
  r3 = r3
  f1 = f1
  f2 = f2
  Req <- TwoReq
  File <- OneFile
  PlanQuotas <- OnePlan
  FirstQuota = 2
  Roll = 1
  Failures <- OneOfEach
  MaxInFlight = 1
  MaxTime = 0
  MaxPlanChanges = 0
  MaxFaults = 0
INVARIANTS
  ReuploadIsServed
CHECK_DEADLOCK FALSE
