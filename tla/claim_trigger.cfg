\* A second step that waits for a timer or an event.
SPECIFICATION FairSpec
CONSTANTS
  Step <- ClaimStep
  Proc <- ClaimProc
  NoStep = "none"
  ProcOf <- ClaimOf
  Order <- ClaimOrder
  TaskType <- NoCall
  Caller <- NeverCalled
  HasRequirement = {}
  HasBinding = {}
  Trigger <- TimerTrigger
  CallProcess = TRUE
  ConfigObjects = TRUE
  ScanScope = "process"
  CanFail = FALSE
  MaxEdits = 1
  MaxCrash = 0
PROPERTY FiredTriggerOpensStep
CHECK_DEADLOCK FALSE
