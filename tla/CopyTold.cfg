\* What a listener is told of a copy that failed.
SPECIFICATION Spec
CONSTANTS
  inbox = inbox
  junk = junk
  archive = archive
  trash = trash
  work = work
  team = team
  archiveWork = archiveWork
  archiveTeam = archiveTeam
  draft = draft
  sent = sent
  NoFolder = NoFolder
  NoCopy = NoCopy
  Folders <- MCFolders
  Files = {draft, sent}
  ParentOf <- MCParentOf
  LeafName <- MCLeafName
  Submissions <- PlainSubmissions
  Behaviours = {}
  MaxRequests = 3
PROPERTIES OkMeansCopied
CHECK_DEADLOCK FALSE
