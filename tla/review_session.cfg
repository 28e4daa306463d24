SPECIFICATION Spec
CONSTANTS
  t1 = t1
  t2 = t2
  c1 = c1
  c2 = c2
  c3 = c3
  None = None
  Tab <- TwoTabs
  Click <- ThreeClicks
  MaxEdits = 2
SYMMETRY Symmetry
INVARIANTS
  TypeOK
  CleanIsSaved
  SignOffIsCurrent
PROPERTIES
  EditsStayUnsaved
CHECK_DEADLOCK FALSE
