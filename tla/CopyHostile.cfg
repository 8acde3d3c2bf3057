\* All behaviours of folders and listeners, requests with several sources.
SPECIFICATION Spec
CONSTANTS
  inbox = inbox
  junk = junk
  archive = archive
  trash = trash
  work = work
  team = team
  archiveWork = archiveWork
  archiveTeam = archiveTeam
  draft = draft
  sent = sent
  NoFolder = NoFolder
  NoCopy = NoCopy
  Folders <- MCFolders
  Files = {draft, sent}
  ParentOf <- MCParentOf
  LeafName <- MCLeafName
  Submissions <- MixedSubmissions
  Behaviours = {"reenter", "abort", "refuse", "silent", "empty", "copier", "move"}
  MaxRequests = 3
INVARIANTS TypeOK BegunIsOldest
PROPERTIES LedgerSpec
CHECK_DEADLOCK FALSE
