SPECIFICATION Spec
CONSTANTS
  c1 = c1
  c2 = c2
  None = None
  Checkout <- TwoCheckouts
  MaxEvents = 4
  MaxUsed = 1
  MaxFaults = 1
SYMMETRY Symmetry
INVARIANTS
  TypeOK
  PlanWasPaidFor
  MirrorsStripe
PROPERTIES
  EventsApplyOnce
  NoFreeRefill
CHECK_DEADLOCK FALSE
