\* A call_process step that comes first.
SPECIFICATION FairSpec
CONSTANTS
  Step <- ClaimStep
  Proc <- ClaimProc
  NoStep = "none"
  ProcOf <- ClaimOf
  Order <- ClaimOrder
  TaskType <- CallFirst
  Caller <- CalledFirst
  HasRequirement = {}
  HasBinding = {}
  Trigger <- NoTrigger
  CallProcess = TRUE
  ConfigObjects = TRUE
  ScanScope = "process"
  CanFail = FALSE
  MaxEdits = 1
  MaxCrash = 0
PROPERTY EligibleCallStepSpawnsChild
CHECK_DEADLOCK FALSE
