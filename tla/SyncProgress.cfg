SPECIFICATION FairSpec
CONSTANTS
  inbox = inbox
  list = list
  Folders = {inbox, list}
  FolderOrder <- MCOrder
  ServerOf <- MCServerOf
  Kind <- MCKind
  Messages = {1, 2}
  Home <- MCHome
  Size <- MCSize
  GroupSize = 5
  FirstGroupSizeLimit = 6
  FirstPassSize = 6
  GroupRetryCount = 0
  HeaderBatch = 1
  Chained = TRUE
  DueSets <- AllDue
  Behaviours = {"failures", "statusFails", "updateFails", "noNews"}
  MaxEvents = 1
PROPERTIES UpdateEnds DiscoveryGoesOn EveryHeaderGetsBody EveryBodyStored
CHECK_DEADLOCK FALSE
