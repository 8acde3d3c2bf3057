\* Every message copy has one source, folders always notify.
SPECIFICATION FairSpec
CONSTANTS
  inbox = inbox
  junk = junk
  archive = archive
  trash = trash
  work = work
  team = team
  archiveWork = archiveWork
  archiveTeam = archiveTeam
  draft = draft
  sent = sent
  NoFolder = NoFolder
  NoCopy = NoCopy
  Folders <- MCFolders
  Files = {draft, sent}
  ParentOf <- MCParentOf
  LeafName <- MCLeafName
  Submissions <- PlainSubmissions
  Behaviours = {}
  MaxRequests = 3
INVARIANTS NoCopyIntoBusyFolder NoDestinationWaits
PROPERTIES OkOnlyAfterEnd StartsOnce EveryRequestReported
CHECK_DEADLOCK FALSE
