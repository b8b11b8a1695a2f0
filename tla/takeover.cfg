SPECIFICATION Spec
CONSTANTS
  Session = {s1, s2}
  Deferred = {d}
  Result = {r}
  LeaseMs = 1
  MaxEvents = 4
  ReceiptHeadroom = 3
  TerminalHeadroom = 5
  MaxTime = 2
  None = None
  Deadline = 2
  ProofRetryMs = 1
  Delays = {1}
  MaxBuffer = 0
  HostOps = {"wake"}
SYMMETRY Symmetry
INVARIANTS
  TypeOK
  OneExecutor
  Accounted
  ViewsComplete
  HistoryValid
CHECK_DEADLOCK FALSE
