SPECIFICATION Spec
CONSTANTS
  TokenSize = 4
  Docs <- RootDocs
  Edits = {}
  Fresh <- SomeFresh
  MaxChanges = 1
  MaxChannel = 1
CHECK_DEADLOCK FALSE
INVARIANTS DiffTurnsFromIntoTo
