SPECIFICATION Spec
CONSTANTS
  MaxPages = 2
  MaxMounts = 3
  ZOOM_MIN = 3
  ZOOM_MAX = 5
  None = None
INVARIANTS TypeOK UrlsAreOwned OneViewerListens
CHECK_DEADLOCK FALSE
