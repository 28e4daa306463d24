SPECIFICATION FairSpec
CONSTANTS
  d1 = d1
  d2 = d2
  r1 = r1
  Doc <- Documents
  DocOf <- OnePerDocument
  Found <- FoundOld
  OfType <- TypeOfNew
  PAGE_SIZE = 1
  MaxRows = 2
  Request <- OneRequest
  None = None
INVARIANTS TypeOK SelectionWasSeen UrlIsChosen
PROPERTIES DeletedRowsGo
CHECK_DEADLOCK FALSE
