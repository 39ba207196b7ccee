SPECIFICATION Spec
CONSTANTS
  m1 = m1
  m2 = m2
  NoMessage = NoMessage
  Messages = {m1, m2}
  Received <- MCReceived
  Lowers <- MCLowers
  Folders <- MCFolders
  MaxHistoryPages = 2
  MaxRecords = 3
  MaxChanges = 2
  MaxAttempts = 2
INVARIANTS
  AnswerKeepsContract
  RefusalNeedsChange
CHECK_DEADLOCK FALSE
