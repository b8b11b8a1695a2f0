SPECIFICATION Spec
CONSTANTS
  Session = {s1}
  Deferred = {d}
  Result = {r}
  LeaseMs = 1
  MaxEvents = 5
  ReceiptHeadroom = 3
  TerminalHeadroom = 5
  MaxTime = 2
  None = None
  Deadline = 1
  ProofRetryMs = 1
  Delays = {1}
  MaxBuffer = 1
  HostOps = {"cancel", "wake"}
SYMMETRY Symmetry
INVARIANTS
  CancelWins
  RoomToEnd
  SleepsInformed
  NoDispatchAfterCancel
CHECK_DEADLOCK FALSE
