\* Every failure, and a call of the offline manager or a restart at any point.
SPECIFICATION FairSpec
CONSTANTS
  now = now
  later = later
  NoMsg = NoMsg
  Msgs = {now, later}
  Later = {later}
  Commands <- WindowCommands
  Behaviours = {"background", "readFails", "refused", "answerLost", "deleteFails", "startFails", "noRecipients", "discards", "stale", "network", "window", "taskFails", "stop", "shutdown"}
  MaxEvents = 1
  MaxTries = 2
INVARIANTS TypeOK OneMessageAtATime SentTwiceExplained LaterOnlyOnRequest
PROPERTIES OutboxSpec RunEnds PlaybackFollows
CHECK_DEADLOCK FALSE
