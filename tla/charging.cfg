SPECIFICATION Spec
CONSTANTS
  t1 = t1
  t2 = t2
  Turn = {t1, t2}
  FilesOf <- MCFilesOf
  Slots = 1
  MaxWorkers = 2
  Counts = {3}
  Nothing = Nothing
  MaxFiles = 3
  MaxImages = 1
  MaxTextChars = 1
  MaxAllChars = 1
  MaxPixels = 1
  MaxField = 8
  MaxFileTokens = 4
  MaxCallTokens = 6
  MaxTurnTokens = 12
INVARIANTS
  SlotsHeld
  StopDecides
PROPERTIES
  Ends
CHECK_DEADLOCK FALSE
