\* Nested processes with failures: safety.
SPECIFICATION Spec
CONSTANTS
  Step <- NestedStep
  Proc <- NestedProc
  NoStep = "none"
  ProcOf <- NestedOf
  Order <- NestedOrder
  TaskType <- NestedType
  Caller <- NestedCaller
  HasRequirement = {"r2", "r3"}
  HasBinding = {}
  Trigger <- NestedTrigger
  CallProcess = TRUE
  ConfigObjects = FALSE
  ScanScope = "order"
  CanFail = TRUE
  MaxEdits = 2
  MaxCrash = 1
INVARIANTS
  TypeOK
  CompletedProcessIsDone
  CallStepCompletesThroughChild
  OneChildPerCallStep
PROPERTIES
  ImplementsLifecycle
CHECK_DEADLOCK FALSE
