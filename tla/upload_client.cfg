SPECIFICATION FairSpec
CONSTANTS
  c1 = c1
  Content <- OneContent
  MaxFiles = 2
  Viewer = Viewer
  None = None
INVARIANTS TypeOK OutcomeIsServers PanelIsFresh
PROPERTIES OutcomeStands EveryTaskEnds
CHECK_DEADLOCK FALSE
