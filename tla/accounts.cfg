SPECIFICATION Spec
CONSTANTS
  r1 = r1
  r2 = r2
  r3 = r3
  r4 = r4
  r5 = r5
  None = None
  Req <- FiveReq
SYMMETRY Symmetry
INVARIANTS
  TypeOK
  OneAccount
  ResetEndsOlderLinks
PROPERTIES
  NoLostUpdate
CHECK_DEADLOCK FALSE
