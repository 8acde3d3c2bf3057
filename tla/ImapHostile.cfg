\* Two URLs about one folder; any two of the events happen.
SPECIFICATION Spec
CONSTANTS
  inbox = inbox
  drafts = drafts
  open1 = open1
  open2 = open2
  open3 = open3
  append = append
  subscribe1 = subscribe1
  subscribe2 = subscribe2
  fetch = fetch
  c1 = c1
  c2 = c2
  c3 = c3
  c4 = c4
  c5 = c5
  c6 = c6
  Urls = {open2, open3}
  Kind <- KindOf
  FolderOf <- AboutFolder
  Local = {open2}
  Folders = {inbox, drafts}
  Inbox = inbox
  NoFolder = NoFolder
  NoUrl = NoUrl
  Connections = {c1, c2, c3, c4}
  NoConnection = NoConnection
  MaxConnections = 2
  Behaviours = {"suspends", "selectFails", "idles", "hangs", "closes", "loses", "badEnd", "returns", "setupFails", "cancels", "offline"}
  MaxEvents = 2
SYMMETRY Identities
INVARIANTS FolderOnOneConnection OnePlace 
PROPERTY LedgerSpec
CHECK_DEADLOCK FALSE
