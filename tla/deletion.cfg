SPECIFICATION DeletionSpec
CONSTANTS
  Session = {s1, s2}
  Deferred = {}
  Result = {}
  LeaseMs = 1
  MaxEvents = 3
  ReceiptHeadroom = 3
  TerminalHeadroom = 5
  MaxTime = 2
  None = None
  Deadline = None
  ProofRetryMs = 1
  Delays = {}
  MaxBuffer = 0
  HostOps = {}
SYMMETRY Symmetry
PROPERTIES
  DeletedQuiet
  DeletedUnheld
CHECK_DEADLOCK FALSE
