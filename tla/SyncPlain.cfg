SPECIFICATION Spec
CONSTANTS
  inbox = inbox
  list = list
  Folders = {inbox, list}
  FolderOrder <- MCOrder
  ServerOf <- MCServerOf
  Kind <- MCKind
  Messages = {1, 8, 9}
  Home <- MCHome
  Size <- MCSize
  GroupSize = 5
  FirstGroupSizeLimit = 6
  FirstPassSize = 6
  GroupRetryCount = 1
  HeaderBatch = 1
  Chained = TRUE
  DueSets <- AllDue
  Behaviours = {"failures", "statusFails", "updateFails", "deletions", "noNews", "refused"}
  MaxEvents = 2
INVARIANTS OneGroupPerServer OneUpdateAtATime NothingSkippedUntried ReadyIsScheduled LockedOnlyWhileFetching BusyIsFetching
PROPERTIES SameGroupAgain
CHECK_DEADLOCK FALSE
