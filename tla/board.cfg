\* A project's board and its process, with users who move cards and edit the
\* project at the same time, and one crash.
SPECIFICATION BoardSpec
CONSTANTS
  Step <- BoardStep
  Proc <- BoardProc
  NoStep = "none"
  ProcOf <- BoardOf
  Order <- BoardOrder
  TaskType <- BoardType
  Caller <- BoardCaller
  HasRequirement = {"r3"}
  HasBinding = {}
  Trigger <- NoTriggers
  CallProcess = TRUE
  ConfigObjects = TRUE
  ScanScope = "process"
  CanFail = TRUE
  MaxEdits = 1
  MaxCrash = 1
  Job = "root"
  TheProject = "project"
  TaskGraph <- BoardTasks
  ProjectGraph <- BoardProjects
  MaxUpdates = 2
INVARIANTS
  BoardTypeOK
  CardFollowsStep
  ProjectClosesWithProcess
PROPERTY DoneStays
CHECK_DEADLOCK FALSE
