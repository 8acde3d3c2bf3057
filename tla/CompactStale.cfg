\* A compaction finds the database that a crash left under its temporary name.
SPECIFICATION Spec
CONSTANTS
  inbox = inbox
  trash = trash
  m1 = m1
  m2 = m2
  m3 = m3
  m4 = m4
  c1 = c1
  c2 = c2
  Folders = {inbox}
  Temps = {1, 2, 3}
  Msgs = {m1, m2, m3, m4}
  Compactors = {c1}
  NoMailbox = NoMailbox
  NoSummary = NoSummary
  FirstMail <- OneFolder
  Behaviours = {}
  MaxCrashes = 1
INVARIANTS NewDatabaseIsValid
CHECK_DEADLOCK FALSE
