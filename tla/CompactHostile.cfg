\* Every failure but a crash, and deletions during a compaction.
SPECIFICATION FairSpec
CONSTANTS
  inbox = inbox
  trash = trash
  m1 = m1
  m2 = m2
  m3 = m3
  m4 = m4
  c1 = c1
  c2 = c2
  Folders = {inbox}
  Temps = {1, 2}
  Msgs = {m1, m2, m3, m4}
  Compactors = {c1, c2}
  NoMailbox = NoMailbox
  NoSummary = NoSummary
  FirstMail <- OneFolder
  Behaviours = {"fileFails", "diskFull", "streamFails", "parseFails", "deletes", "moveFails", "initFails", "again"}
  MaxCrashes = 0
INVARIANTS SummaryAgrees
PROPERTIES LocksReleased
CHECK_DEADLOCK FALSE
