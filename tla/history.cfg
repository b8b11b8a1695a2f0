SPECIFICATION Spec
CONSTANTS
  MaxTurns = 5
  MaxExchanges = 3
  Budget = 34
  Window = 44
  Reserve = 4
  KeepResults = 2
  OmitTrigger = 8
  Placeholder = 2
  BridgeTokens = 4
  FixedTokens = {3, 20, 36}
  Results <- MCResults
INVARIANTS
  KeptIsNewestRun
  RecentResultsWhole
  BridgeWithItsTurn
CHECK_DEADLOCK FALSE
