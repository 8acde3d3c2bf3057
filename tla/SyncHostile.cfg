SPECIFICATION Spec
CONSTANTS
  inbox = inbox
  list = list
  Folders = {inbox, list}
  FolderOrder <- MCOrder
  ServerOf <- MCServerOf
  Kind <- MCKind
  Messages = {1, 2}
  Home <- MCHome
  Size <- MCSize
  GroupSize = 5
  FirstGroupSizeLimit = 6
  FirstPassSize = 6
  GroupRetryCount = 1
  HeaderBatch = 1
  Chained = FALSE
  DueSets <- AllDue
  Behaviours = {"failures", "statusFails", "updateFails", "deletions", "overlap", "noNews", "opens", "moves", "offline", "removals", "direct", "playback"}
  MaxEvents = 1
INVARIANTS TypeOK DownloadQWellFormed PendingFolderQueued
CHECK_DEADLOCK FALSE
