\* One connection for four URLs: it may get too old, and its folder be closed.
SPECIFICATION FairSpec
CONSTANTS
  inbox = inbox
  drafts = drafts
  open1 = open1
  open2 = open2
  open3 = open3
  append = append
  subscribe1 = subscribe1
  subscribe2 = subscribe2
  fetch = fetch
  c1 = c1
  c2 = c2
  c3 = c3
  c4 = c4
  c5 = c5
  c6 = c6
  Urls = {open1, open2, append, fetch}
  Kind <- KindOf
  FolderOf <- AboutFolder
  Local = {}
  Folders = {inbox, drafts}
  Inbox = inbox
  NoFolder = NoFolder
  NoUrl = NoUrl
  Connections = {c1, c2, c3, c4, c5, c6}
  NoConnection = NoConnection
  MaxConnections = 1
  Behaviours = {"suspends", "idles", "closes"}
  MaxEvents = 2
PROPERTY EveryUrlEnds
CHECK_DEADLOCK FALSE
