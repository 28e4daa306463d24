SPECIFICATION FairSpec
CONSTANTS
  r1 = r1
  r2 = r2
  r3 = r3
  f1 = f1
  f2 = f2
  Req <- ThreeReq
  File <- OneFile
  PlanQuotas <- OnePlan
  FirstQuota = 2
  Roll = 1
  Failures <- OneOfEach
  MaxInFlight = 4
  MaxTime = 0
  MaxPlanChanges = 0
  MaxFaults = 0
PROPERTIES
  EveryRowTerminates
  EveryRequestAnswered
CHECK_DEADLOCK FALSE
