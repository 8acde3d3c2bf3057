\* Crashes at any point, and failures.
SPECIFICATION FairSpec
CONSTANTS
  inbox = inbox
  trash = trash
  m1 = m1
  m2 = m2
  m3 = m3
  m4 = m4
  c1 = c1
  c2 = c2
  Folders = {inbox, trash}
  Temps = {1, 2, 3}
  Msgs = {m1, m2, m3, m4}
  Compactors = {c1, c2}
  NoMailbox = NoMailbox
  NoSummary = NoSummary
  FirstMail <- TwoFull
  Behaviours = {"fileFails", "diskFull", "streamFails", "parseFails", "initFails", "startFails"}
  MaxCrashes = 1
INVARIANTS TypeOK SummaryAgrees
PROPERTIES MailStoreSpec
CHECK_DEADLOCK FALSE
