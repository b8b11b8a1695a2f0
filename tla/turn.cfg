SPECIFICATION Spec
CONSTANTS
  MaxFiles = 2
  MaxImages = 1
  MaxTextChars = 4
  MaxAllChars = 4
  MaxPixels = 1
  MaxField = 8
  MaxFileTokens = 4
  MaxCallTokens = 4
  MaxTurnTokens = 5
  MaxAssistants = 1
  MaxActions = 2
  MaxSchemaNodes = 2
  MaxEntries = 1
  MaxEntryChars = 2
  MaxWindowChars = 2
  MaxMemories = 1
  MaxResults = 2
  None = None
  MaxQuestionChars = 4
  MaxLabelChars = 3
  MaxDescriptionChars = 3
  MinOptions = 2
  MaxOptions = 2
  MaxQuoteChars = 4
  MinQuoteChars = 2
  MaxChanges = 1
  MaxObjectiveChars = 3
  Starts <- MCStarts
  Kept <- MCKept
  KeptScope <- MCScope
  Answers <- MCAnswers
  Unsafe <- MCUnsafe
  Verdicts <- MCVerdicts
  Results = {"result"}
  RecursionLimit = 6
  MaxAttempts = 2
  MaxRounds = 1
  MaxCrashes = 1
CHECK_DEADLOCK FALSE
INVARIANTS
  ReplaySame
  BrowserLast
  KeptFromUser
  CallsPaired
  CeilingHeld
