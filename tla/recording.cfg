SPECIFICATION Spec
CONSTANTS
  Null = Null
  Text = {"t", "u", "UTC", "r", "m", "l", "f", "s1", "s2", "s3", "s4", "s5"}
  MaxSteps = 4
  MaxInputs = 2
  MaxRoutines = 1
  MaxEdits = 2
  MaxOptions = 1
  Day = 20
  MinGap = 5
  MaxGap = 30
  MaxSends = 2
  MaxCalls = 2
  MaxRevision = 2
  Ids = {"s1", "s2", "s3", "s4", "s5"}
  Values = {"v"}
  Identifiers = {"v"}
  Questions <- MCQuestions
  Edits <- MCEdits
  Source = "l"
  Fresh = "f"
  FirstPlan <- MCPlan
INVARIANTS
  KeptReadOn
  CardAdmitted
  FreshNotRemembered
  RefinesOwnCalls
CHECK_DEADLOCK FALSE
