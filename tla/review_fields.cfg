SPECIFICATION Spec
CONSTANTS
  None = None
  Loaded <- Documents
  MaxTypes = 2
  MaxFlags = 1
INVARIANTS TypeOK ScreenIsDraft OnlyTypingChanges DraftStaysValid SummaryMatchesRows
CHECK_DEADLOCK FALSE
