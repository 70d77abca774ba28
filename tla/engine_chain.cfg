\* A chain with a call_process step, without failures: what must not be lost and
\* what must eventually happen.
SPECIFICATION FairSpec
CONSTANTS
  Step <- ChainStep
  Proc <- ChainProc
  NoStep = "none"
  ProcOf <- ChainOf
  Order <- ChainOrder
  TaskType <- ChainType
  Caller <- ChainCaller
  HasRequirement = {"r2", "k2"}
  HasBinding = {"k1"}
  Trigger <- ChainTrigger
  CallProcess = TRUE
  ConfigObjects = TRUE
  ScanScope = "process"
  CanFail = FALSE
  MaxEdits = 3
  MaxCrash = 0
INVARIANTS
  BlockedStepWillBeResumed
  NoLostCompletion
PROPERTIES
  ChildCompletionReachesParent
  ChildCompletionUnlocksSuccessors
  ApprovalOpensStep
CHECK_DEADLOCK FALSE
