SPECIFICATION Spec
CONSTANTS
  Request <- MCRequest
  Slots <- MCSlots
  Setups <- MCSetups
  None = None
  MAX_CONVERSATION_CHARS = 2
  MAX_STEPS = 4
  MAX_HISTORY_BYTES = 6
  MAX_FOLDED_BYTES = 2
  MAX_MEMORY_BYTES = 2
  MAX_REQUEST_TEXT_BYTES = 7
  HAIKU_RECORDS = 2
  Priced <- MCPriced
  Workloads <- MCWorkloads
  LaneSlots = 1
  MAX_REQUEST_BYTES = 2
  MEMORY_PER_REQUEST = 2
  MAX_REQUEST_MEMORY = 6
  MaxAtClose = 2
INVARIANTS
  TypeOK
  WaitsBehindCalls
  WorkBounded
  AuthorityClosed
  ThreadGrows
PROPERTIES
  NothingAfterClose
  WorkEnds
