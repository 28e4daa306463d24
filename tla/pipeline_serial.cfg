SPECIFICATION Spec
CONSTANTS
  r1 = r1
  r2 = r2
  r3 = r3
  f1 = f1
  f2 = f2
  Req <- ThreeReq
  File <- OneFile
  PlanQuotas <- TwoPlans
  FirstQuota = 2
  Roll = 2
  Failures <- AllFailures
  MaxInFlight = 1
  MaxTime = 4
  MaxPlanChanges = 1
  MaxFaults = 1
SYMMETRY SymmetryReq
INVARIANTS
  ExactBilling
PROPERTIES
  ImplementsLedger
CHECK_DEADLOCK FALSE
